---- MODULE Spec2Model ----
(***************************************************************************)
(* A model of the EDGAR client of pkg/edgar/client.go: the selection of    *)
(* the best observation of a series (findValueForDate), the extraction of  *)
(* a metric over a list of candidate tags (extractMetric), the cash-flow   *)
(* and EBITDA records built from a company-facts document, and the         *)
(* selection of the most recent 10-Q filings of a submissions document.    *)
(*                                                                         *)
(* Conventions.                                                            *)
(*  - A date string ("2023-12-30") is modelled by its rank in the          *)
(*    lexicographic order of Go strings: 0 is the empty string "", the     *)
(*    zero value of a Go string, and 1..MaxDate are the dates of the       *)
(*    documents.  NoString (-1) is a JSON field that is absent or whose    *)
(*    type assertion to string fails.                                      *)
(*  - A float64 is modelled by an integer; EBITDAMargin, the only          *)
(*    quotient, is kept as a fraction in lowest terms.                     *)
(*  - Go's iteration over a map visits the keys in an unspecified order,   *)
(*    and sort.Slice is not stable: both are nondeterministic choices.     *)
(***************************************************************************)
EXTENDS Integers, Sequences, FiniteSets, TLC

VARIABLES
    pc,          \* "ready" before the call, "done" after it
    op,          \* the operation that ran ("" before the call)
    dataArray,   \* findValueForDate: the series
    targetDate,  \* findValueForDate / extractMetric: the report date
    usGaap,      \* extractMetric: the us-gaap taxonomy, tag -> concept
    tagNames,    \* extractMetric: the candidate tags, in priority order
    result,      \* extractMetric: the float64 behind the result pointer
    consulted,   \* extractMetric: the <<tag, unit>> series scanned, in order
    submissions, \* the submissions document the server holds
    facts,       \* the company-facts document the server holds
    status,      \* the outcome of a request to each endpoint
    filing,      \* the filing handed to a Parse... operation
    requests,    \* the requests issued, in order
    err,         \* the error returned: its chain of messages (<<>> is nil)
    ret,         \* the value returned by the operation
    args,        \* main: the command line, the flags as flag.Parse leaves them
    cik,         \* main: the request key, the CIK after the padding
    client,      \* main: whether edgar.NewClient() was called
    stdout,      \* main: the reports written to standard output
    stderr,      \* main: the lines written to standard error
    exitCode     \* main: the exit status of the process

vars == <<pc, op, dataArray, targetDate, usGaap, tagNames, result, consulted,
          submissions, facts, status, filing, requests, err, ret,
          args, cik, client, stdout, stderr, exitCode>>

findIn == <<dataArray, targetDate>>
extractIn == <<usGaap, tagNames>>
clientIn == <<submissions, facts, status, filing>>
cli == <<args, cik, client, stdout, stderr, exitCode>>

-----------------------------------------------------------------------------
(* Bounds of the model *)

MaxSeriesLen == 3
MaxDate == 4

NoString == -1
EmptyDate == 0
Dates == 1..MaxDate
\* report dates with at least one date before and one date after them
TargetDates == 2..(MaxDate - 1)

TenQ == "10-Q"
TenK == "10-K"
OtherForm == "8-K"
NoForm == "<not a string>"
Forms == {TenQ, TenK, OtherForm}

-----------------------------------------------------------------------------
(* JSON values of the "val" field *)

FloatVal(n) == [kind |-> "float64", num |-> n,  str |-> <<>>]
StringVal(s) == [kind |-> "string",  num |-> 0,  str |-> s]
NilVal == [kind |-> "nil", num |-> 0, str |-> <<>>]

DigitOf(c) ==
    CASE c = "0" -> 0 [] c = "1" -> 1 [] c = "2" -> 2 [] c = "3" -> 3 [] c = "4" -> 4
      [] c = "5" -> 5 [] c = "6" -> 6 [] c = "7" -> 7 [] c = "8" -> 8 [] c = "9" -> 9
      [] OTHER -> -1

RECURSIVE ParseDigits(_, _)
\* the decimal value of the digit string s after the digits read so far (acc);
\* -1 when a character is not a digit
ParseDigits(s, acc) ==
    IF s = <<>> THEN acc
    ELSE IF DigitOf(Head(s)) < 0 THEN -1
    ELSE ParseDigits(Tail(s), 10 * acc + DigitOf(Head(s)))

\* strconv.ParseFloat on an optionally signed decimal integer literal
ParseFloat(s) ==
    LET neg == s # <<>> /\ Head(s) = "-"
        body == IF neg THEN Tail(s) ELSE s
        n == IF body = <<>> THEN -1 ELSE ParseDigits(body, 0)
    IN  IF n < 0 THEN [ok |-> FALSE, val |-> 0]
        ELSE [ok |-> TRUE, val |-> IF neg THEN 0 - n ELSE n]

-----------------------------------------------------------------------------
(* findValueForDate *)

ScoreExactDate == 100
ScoreTenQ == 50
ScoreTenK == 10
ScoreRecency == 25

DataPoint(end, form, val) == [end |-> end, form |-> form, val |-> val]

\* the switch with the scores of the two forms exchanged
FormScoreSwapped(form) ==
    CASE form = TenQ -> ScoreTenK
      [] form = TenK -> ScoreTenQ
      [] OTHER -> 0

\* the switch on the form
FormScore(form) ==
    CASE form = TenQ -> ScoreTenQ
      [] form = TenK -> ScoreTenK
      [] OTHER -> 0

\* date <= targetDate && date > bestDate
RecencyAwarded(dp, target, bestDate) == dp.end <= target /\ dp.end > bestDate

\* the score without the points of the exact date
ScoreWithoutExactDate(dp, target, bestDate) ==
    FormScore(dp.form)
    + (IF RecencyAwarded(dp, target, bestDate) THEN ScoreRecency ELSE 0)

\* the match score of an observation, given the date of the best one so far
Score(dp, target, bestDate) ==
    (IF dp.end = target THEN ScoreExactDate ELSE 0)
    + FormScore(dp.form)
    + (IF RecencyAwarded(dp, target, bestDate) THEN ScoreRecency ELSE 0)

\* an equal score is enough: the later observation replaces the earlier one
IsBetterMatchOrEqual(score, date, best) == score >= best.bestScore

\* a tie broken the other way: the earlier end date is preferred
IsBetterMatchEarlierOnTie(score, date, best) ==
    score > best.bestScore \/ (score = best.bestScore /\ date < best.bestDate)

\* score > bestScore || (score == bestScore && date > bestDate)
IsBetterMatch(score, date, best) ==
    score > best.bestScore \/ (score = best.bestScore /\ date > best.bestDate)

InitBest == [bestValue |-> 0, bestDate |-> EmptyDate, bestScore |-> 0]

\* one iteration of the loop over dataArray
ScanStep(best, dp, target) ==
    IF dp.end = NoString \/ dp.form = NoForm THEN best
    ELSE
      LET score == Score(dp, target, best.bestDate)
      IN  IF IsBetterMatch(score, dp.end, best)
          THEN IF dp.val.kind = "float64"
               THEN [bestValue |-> dp.val.num, bestDate |-> dp.end, bestScore |-> score]
               ELSE IF dp.val.kind = "string" /\ ParseFloat(dp.val.str).ok
               THEN [bestValue |-> ParseFloat(dp.val.str).val, bestDate |-> dp.end,
                     bestScore |-> score]
               ELSE best
          ELSE best

RECURSIVE Scan(_, _, _)
\* the loop's variables after the first k observations
Scan(data, target, k) ==
    IF k = 0 THEN InitBest
    ELSE ScanStep(Scan(data, target, k - 1), data[k], target)

findValueForDate(data, target) == Scan(data, target, Len(data)).bestValue

-----------------------------------------------------------------------------
(* The series of the model.  findValueForDate never compares two values, so *)
(* the observation at position i carries the value i: the value returned    *)
(* names the observation it came from.                                      *)

DigitChars == <<"0", "1", "2", "3", "4", "5", "6", "7", "8", "9">>
DigitString(i) == <<DigitChars[i + 1]>>

\* the JSON value of an observation, by its kind; n names the observation
ValOfKind(kind, n) ==
    CASE kind = "float64" -> FloatVal(n)
      [] kind = "zero" -> FloatVal(0)
      [] kind = "numeric string" -> StringVal(DigitString(n))
      [] kind = "other string" -> StringVal(<<"x">>)
      [] OTHER -> NilVal

\* the observations of the model, but for their values
PointShapes ==
    {DataPoint(d, f, "float64") : d \in Dates, f \in Forms}
    \cup {DataPoint(d, TenQ, k) : d \in TargetDates,
                                  k \in {"numeric string", "other string", "nil"}}
    \cup {DataPoint(NoString, TenQ, "float64"), DataPoint(2, NoForm, "float64")}

\* the series of the given shapes; the observation at position i has value base + i
SeriesOf(shapes, base) ==
    [i \in DOMAIN shapes |->
        DataPoint(shapes[i].end, shapes[i].form, ValOfKind(shapes[i].val, base + i))]

\* the numeric value of an observation, when it has one
IsNumeric(dp) ==
    dp.val.kind = "float64" \/ (dp.val.kind = "string" /\ ParseFloat(dp.val.str).ok)
NumericValue(dp) ==
    IF dp.val.kind = "float64" THEN dp.val.num ELSE ParseFloat(dp.val.str).val
\* an observation the loop looks at: both type assertions succeed
IsScanned(dp) == dp.end # NoString /\ dp.form # NoForm

-----------------------------------------------------------------------------
(* Specification of findValueForDate *)

NoTaxonomy == <<>>
NoDocument == <<>>
\* a nil error; fmt.Errorf("msg: %w", e) puts msg before the messages of e
NoError == <<>>
Wrap(msg, e) == <<msg>> \o e

\* the variables a specification does not use
IdleFind == dataArray = <<>>
IdleExtract == usGaap = NoTaxonomy /\ tagNames = <<>> /\ result = 0 /\ consulted = <<>>
IdleClient ==
    /\ submissions = NoDocument /\ facts = NoDocument /\ status = NoDocument
    /\ filing = NoDocument /\ requests = <<>>
IdleCLI ==
    /\ args = NoDocument /\ cik = <<>> /\ client = FALSE
    /\ stdout = <<>> /\ stderr = <<>> /\ exitCode = 0

InitFind ==
    /\ pc = "ready"
    /\ op = ""
    /\ \E n \in 0..MaxSeriesLen : \E shapes \in [1..n -> PointShapes] :
          dataArray = SeriesOf(shapes, 0)
    /\ targetDate \in TargetDates
    /\ IdleExtract
    /\ IdleClient
    /\ err = NoError
    /\ ret = 0
    /\ IdleCLI

CallFindValueForDate ==
    /\ pc = "ready"
    /\ pc' = "done"
    /\ op' = "findValueForDate"
    /\ ret' = findValueForDate(dataArray, targetDate)
    /\ UNCHANGED <<findIn, extractIn, result, consulted, clientIn, requests, err, cli>>

NextFind == CallFindValueForDate

SpecFind == InitFind /\ [][NextFind]_vars

-----------------------------------------------------------------------------
(* C1: when the series holds an observation with a numeric value whose end  *)
(* date is the target date and whose form is 10-Q, findValueForDate returns *)
(* the value of such an observation, whatever else the series holds.        *)

IsExactTenQ(dp, target) ==
    IsScanned(dp) /\ dp.end = target /\ dp.form = TenQ /\ IsNumeric(dp)

C1_ExactTenQWins ==
    (pc = "done" /\ op = "findValueForDate"
        /\ \E i \in 1..Len(dataArray) : IsExactTenQ(dataArray[i], targetDate))
    => \E i \in 1..Len(dataArray) :
          /\ IsExactTenQ(dataArray[i], targetDate)
          /\ ret = NumericValue(dataArray[i])

\* an exact-date 10-Q stands last, behind an exact-date 10-K and a later 10-Q
C1_Witness ==
    /\ pc = "done" /\ op = "findValueForDate"
    /\ Len(dataArray) = 3
    /\ dataArray[1].end = targetDate /\ dataArray[1].form = TenK
    /\ dataArray[1].val.kind = "float64"
    /\ dataArray[2].end > targetDate /\ dataArray[2].form = TenQ
    /\ dataArray[2].val.kind = "float64"
    /\ IsExactTenQ(dataArray[3], targetDate)
    /\ ret = 3

-----------------------------------------------------------------------------
(* extractMetric *)

\* unit names are strings of characters: "USD", "USD/shares", "shares"
UnitUSD == <<"U", "S", "D">>
UnitUSDPerShare == <<"U", "S", "D", "/", "s", "h", "a", "r", "e", "s">>
UnitShares == <<"s", "h", "a", "r", "e", "s">>

ToLowerChar(c) ==
    CASE c = "U" -> "u" [] c = "S" -> "s" [] c = "D" -> "d" [] OTHER -> c
\* strings.ToLower
ToLower(s) == [i \in DOMAIN s |-> ToLowerChar(s[i])]
\* strings.Contains
Contains(s, sub) ==
    \E i \in 1..(Len(s) - Len(sub) + 1) : SubSeq(s, i, i + Len(sub) - 1) = sub

IsUSDUnit(unitType) == Contains(ToLower(unitType), <<"u", "s", "d">>)

\* unitData: the series of a unit, or a value that is no array
UnitData(isArray, data) == [isArray |-> isArray, data |-> data]
\* a concept: a map with a "units" map, a map without one, or no map at all
Concept(isMap, hasUnits, units) == [isMap |-> isMap, hasUnits |-> hasUnits, units |-> units]
NotAMap == Concept(FALSE, FALSE, <<>>)
NoUnits == Concept(TRUE, FALSE, <<>>)

\* the orders in which a range loop may visit the keys of a map
Orders(keys) ==
    {o \in [1..Cardinality(keys) -> keys] : \A i, j \in DOMAIN o : i # j => o[i] # o[j]}

\* the test left out: whatever the scan returns counts as found
IsFoundAlways(value) == TRUE

\* value != 0: the scan of a series found something
IsFound(value) == value # 0

RECURSIVE ScanUnits(_, _, _, _, _)
\* the loop over the units of one concept, visited in the given order, from
\* position k on: whether a value was found, the value, the units scanned
ScanUnits(units, order, k, reportDate, scanned) ==
    IF k > Len(order) THEN [found |-> FALSE, value |-> 0, scanned |-> scanned]
    ELSE
      LET unitType == order[k]
          unitData == units[unitType]
      IN  IF IsUSDUnit(unitType) /\ unitData.isArray
          THEN LET value == findValueForDate(unitData.data, reportDate)
               IN  IF IsFound(value)
                   THEN [found |-> TRUE, value |-> value,
                         scanned |-> Append(scanned, unitType)]
                   ELSE ScanUnits(units, order, k + 1, reportDate,
                                  Append(scanned, unitType))
          ELSE ScanUnits(units, order, k + 1, reportDate, scanned)

HasUnitsMap(taxonomy, tagName) ==
    /\ tagName \in DOMAIN taxonomy
    /\ taxonomy[tagName].isMap
    /\ taxonomy[tagName].hasUnits

ErrMetricNotFound == "metric not found with any of the provided tag names"

RECURSIVE ExtractFrom(_, _, _, _, _, _, _)
\* the loop over the candidate tags from position k on; orders[tag] is the
\* order in which the units of the tag are visited
ExtractFrom(taxonomy, tags, k, result0, reportDate, orders, scanned) ==
    IF k > Len(tags)
    THEN [err |-> <<ErrMetricNotFound>>, result |-> result0, consulted |-> scanned]
    ELSE
      LET tagName == tags[k]
      IN  IF HasUnitsMap(taxonomy, tagName)
          THEN LET r == ScanUnits(taxonomy[tagName].units, orders[tagName], 1,
                                  reportDate, <<>>)
                   seen == scanned \o [i \in DOMAIN r.scanned |-> <<tagName, r.scanned[i]>>]
               IN  IF r.found
                   THEN [err |-> NoError, result |-> r.value, consulted |-> seen]
                   ELSE ExtractFrom(taxonomy, tags, k + 1, result0, reportDate, orders, seen)
          ELSE ExtractFrom(taxonomy, tags, k + 1, result0, reportDate, orders, scanned)

\* the return after the assignment left out: the loop runs on to the error
extractMetricErrorAfterWrite(taxonomy, tags, result0, reportDate, orders) ==
    [ExtractFrom(taxonomy, tags, 1, result0, reportDate, orders, <<>>)
        EXCEPT !.err = <<ErrMetricNotFound>>]

\* the loop over the candidate tags, and the error behind it
extractMetric(taxonomy, tags, result0, reportDate, orders) ==
    ExtractFrom(taxonomy, tags, 1, result0, reportDate, orders, <<>>)

\* the unit orders of one run: one order for each concept that has units
UnitOrders(taxonomy, tags) ==
    LET withUnits == {t \in {tags[k] : k \in DOMAIN tags} : HasUnitsMap(taxonomy, t)}
        all == UNION {Orders(DOMAIN taxonomy[t].units) : t \in withUnits}
    IN  {o \in [withUnits -> all] : \A t \in withUnits : o[t] \in Orders(DOMAIN taxonomy[t].units)}

-----------------------------------------------------------------------------
(* The taxonomies of the model *)

MaxUnitSeriesLen == 1

DepreciationTags == <<"Depreciation", "DepreciationNonproduction">>
AmortizationTags == <<"AmortizationOfIntangibleAssets", "Amortization">>

RECURSIVE IndexOf(_, _)
\* the position of x in the sequence s (0 when it is not there)
IndexOf(s, x) ==
    IF s = <<>> THEN 0
    ELSE IF s[Len(s)] = x /\ IndexOf(SubSeq(s, 1, Len(s) - 1), x) = 0 THEN Len(s)
    ELSE IndexOf(SubSeq(s, 1, Len(s) - 1), x)

\* the report dates of the filings of the model
ReportDates == {2, 3}

\* observations of a unit series: on the report date or beside it, a 10-Q
\* whose value is zero or not, or an 8-K
UnitPointShapes ==
    {DataPoint(d, TenQ, k) : d \in ReportDates, k \in {"float64", "zero"}}
    \cup {DataPoint(d, OtherForm, "float64") : d \in ReportDates}

\* the shapes of a concept: no map, no units, or a USD unit (an array or not),
\* alone or beside a second unit
SecondUnits == {"none", "USD/shares", "USD/shares empty", "shares"}
ConceptShapes ==
    {[kind |-> k, isArray |-> FALSE, usd |-> <<>>, second |-> "none"] :
        k \in {"absent", "no map", "no units"}}
    \cup {[kind |-> "units", isArray |-> FALSE, usd |-> <<>>, second |-> x] : x \in SecondUnits}
    \cup UNION {{[kind |-> "units", isArray |-> TRUE, usd |-> u, second |-> x] :
                    u \in [1..n -> UnitPointShapes], x \in SecondUnits} :
                 n \in 0..MaxUnitSeriesLen}

\* the concept of a shape; base names the tag in the values of its observations
ConceptOf(shape, base) ==
    CASE shape.kind = "no map" -> NotAMap
      [] shape.kind = "no units" -> NoUnits
      [] OTHER ->
           LET usd == UnitData(shape.isArray, SeriesOf(shape.usd, base))
               one == <<DataPoint(2, TenQ, FloatVal(base + 50))>>
           IN  Concept(TRUE, TRUE,
                 CASE shape.second = "USD/shares" ->
                        (UnitUSD :> usd) @@ (UnitUSDPerShare :> UnitData(TRUE, one))
                   [] shape.second = "USD/shares empty" ->
                        (UnitUSD :> usd) @@ (UnitUSDPerShare :> UnitData(TRUE, <<>>))
                   [] shape.second = "shares" ->
                        (UnitUSD :> usd) @@ (UnitShares :> UnitData(TRUE, one))
                   [] OTHER -> (UnitUSD :> usd))

\* the taxonomy in which the k-th tag of the list has the k-th shape
TaxonomyOf(tags, shapes) ==
    LET present == {k \in DOMAIN tags : shapes[k].kind # "absent"}
    IN  [t \in {tags[k] : k \in present} |->
            ConceptOf(shapes[IndexOf(tags, t)], 100 * IndexOf(tags, t))]

-----------------------------------------------------------------------------
(* Specification of extractMetric *)

InitExtract ==
    /\ pc = "ready"
    /\ op = ""
    /\ IdleFind
    /\ targetDate \in ReportDates
    /\ tagNames \in {DepreciationTags, AmortizationTags}
    /\ \E shapes \in [DOMAIN tagNames -> ConceptShapes] :
          usGaap = TaxonomyOf(tagNames, shapes)
    /\ result = 0
    /\ consulted = <<>>
    /\ IdleClient
    /\ err = NoError
    /\ ret = 0
    /\ IdleCLI

CallExtractMetric ==
    /\ pc = "ready"
    /\ pc' = "done"
    /\ op' = "extractMetric"
    /\ \E orders \in UnitOrders(usGaap, tagNames) :
          LET r == extractMetric(usGaap, tagNames, result, targetDate, orders)
          IN  /\ err' = r.err
              /\ result' = r.result
              /\ consulted' = r.consulted
    /\ UNCHANGED <<findIn, extractIn, clientIn, requests, ret, cli>>

NextExtract == CallExtractMetric

SpecExtract == InitExtract /\ [][NextExtract]_vars


-----------------------------------------------------------------------------
(* Vocabulary of the claims about extractMetric *)

ExtractDone == pc = "done" /\ op = "extractMetric"

\* the USD units of a tag that hold a series
UsdUnits(tagName) ==
    IF HasUnitsMap(usGaap, tagName)
    THEN {u \in DOMAIN usGaap[tagName].units :
            IsUSDUnit(u) /\ usGaap[tagName].units[u].isArray}
    ELSE {}
SeriesAt(tagName, u) == usGaap[tagName].units[u].data
\* the observation held at the end of the scan of a series
BestOf(data) == Scan(data, targetDate, Len(data))

\* the tag is in the taxonomy and has a USD-denominated series
PresentWithUSD(tagName) == UsdUnits(tagName) # {}
\* a series of the tag holds an observation whose score is above 0
YieldsScore(tagName) ==
    \E u \in UsdUnits(tagName) : BestOf(SeriesAt(tagName, u)).bestScore > 0
\* the scan of a series of the tag returns a value that is not 0
YieldsValue(tagName) ==
    \E u \in UsdUnits(tagName) : BestOf(SeriesAt(tagName, u)).bestValue # 0

ConsultedTags == {consulted[i][1] : i \in DOMAIN consulted}
LastConsulted == consulted[Len(consulted)]

(* C2: extractMetric returns an error exactly when no candidate tag's USD   *)
(* series yields an observation with a score above 0; otherwise it returns  *)
(* the winning observation's value, also when that value is 0, and never    *)
(* the value of an observation that scores 0.                               *)
C2_NotFoundIffNoScore ==
    ExtractDone =>
        /\ (err # NoError) <=> ~ \E k \in DOMAIN tagNames : YieldsScore(tagNames[k])
        /\ err = NoError =>
              /\ consulted # <<>>
              /\ result = BestOf(SeriesAt(LastConsulted[1], LastConsulted[2])).bestValue
              /\ BestOf(SeriesAt(LastConsulted[1], LastConsulted[2])).bestScore > 0

(* C3 as claimed: the result comes from the first candidate tag that is     *)
(* present with a USD series, and no later tag is consulted once an earlier *)
(* one is present with a USD series.                                        *)
C3_FirstPresentTag ==
    ExtractDone =>
        \A i, j \in DOMAIN tagNames :
            (i < j /\ PresentWithUSD(tagNames[i])) => tagNames[j] \notin ConsultedTags

(* C3 as amended: the tags are consulted in list order and the result comes *)
(* from the first tag one of whose USD series scans to a value that is not  *)
(* 0; a tag whose USD series all scan to 0 is passed over, all its USD      *)
(* series having been scanned; no tag behind the one that gave the value is *)
(* consulted; the call fails exactly when no tag gives such a value.        *)
C3_FirstTagWithValue ==
    ExtractDone =>
        /\ \A i, j \in DOMAIN consulted :
              i < j => IndexOf(tagNames, consulted[i][1]) <= IndexOf(tagNames, consulted[j][1])
        /\ (err = NoError) <=> \E k \in DOMAIN tagNames : YieldsValue(tagNames[k])
        /\ err = NoError =>
              \E k \in DOMAIN tagNames :
                 /\ YieldsValue(tagNames[k])
                 /\ \A i \in 1..(k - 1) : ~ YieldsValue(tagNames[i])
                 /\ LastConsulted[1] = tagNames[k]
                 /\ result # 0
                 /\ result = BestOf(SeriesAt(tagNames[k], LastConsulted[2])).bestValue
                 /\ \A i \in 1..(k - 1) : \A u \in UsdUnits(tagNames[i]) :
                       \E c \in DOMAIN consulted : consulted[c] = <<tagNames[i], u>>
                 /\ \A j \in (k + 1)..Len(tagNames) : tagNames[j] \notin ConsultedTags
        /\ err # NoError =>
              /\ result = 0
              /\ \A k \in DOMAIN tagNames : \A u \in UsdUnits(tagNames[k]) :
                    \E c \in DOMAIN consulted : consulted[c] = <<tagNames[k], u>>

\* the first tag is present with a USD series that scans to 0 and the value
\* comes from the second tag
C3_Witness ==
    /\ ExtractDone
    /\ err = NoError
    /\ PresentWithUSD(tagNames[1])
    /\ SeriesAt(tagNames[1], UnitUSD) # <<>>
    /\ ~ YieldsValue(tagNames[1])
    /\ LastConsulted[1] = tagNames[2]
    /\ result # 0


-----------------------------------------------------------------------------
(* The fetcher: makeRequest, GetCompanySubmissions, GetCompanyFacts *)

StatusOK == 200

\* what the server does with a request: the transport fails, or it answers
\* with a status code and a body that is valid JSON or not
ServerAnswer(failed, code, valid) == [failed |-> failed, code |-> code, valid |-> valid]
AnswerOK == ServerAnswer(FALSE, StatusOK, TRUE)

ErrMakingRequest == "error making request"
ErrDecoding == "error decoding response"

\* the body of a response, valid JSON or not; nil when none is returned
Body(valid) == [valid |-> valid]
NoBody == <<>>

DecimalDigit(d) ==
    CASE d = 0 -> "0" [] d = 1 -> "1" [] d = 2 -> "2" [] d = 3 -> "3" [] d = 4 -> "4"
      [] d = 5 -> "5" [] d = 6 -> "6" [] d = 7 -> "7" [] d = 8 -> "8" [] d = 9 -> "9"

RECURSIVE Decimal(_)
\* the verb %d on n >= 0
Decimal(n) ==
    IF n < 10 THEN DecimalDigit(n) ELSE Decimal(n \div 10) \o DecimalDigit(n % 10)

\* the message of a response that is not 200, up to the body it quotes
ErrStatusCode(code) == "unexpected status code: " \o Decimal(code)

\* the test left out: every status code is taken for a success
IsUnexpectedStatusNever(code) == FALSE

\* resp.StatusCode != http.StatusOK
IsUnexpectedStatus(code) == code # StatusOK

makeRequest(answer) ==
    IF answer.failed THEN [err |-> <<ErrMakingRequest>>, body |-> NoBody]
    ELSE IF IsUnexpectedStatus(answer.code)
    THEN [err |-> <<ErrStatusCode(answer.code)>>, body |-> NoBody]
    ELSE [err |-> NoError, body |-> Body(answer.valid)]

\* makeRequest, then json.Unmarshal of the body
FetchDocument(answer, document) ==
    LET got == makeRequest(answer)
    IN  IF got.err # NoError THEN [err |-> got.err, doc |-> NoDocument]
        ELSE IF ~ got.body.valid THEN [err |-> <<ErrDecoding>>, doc |-> NoDocument]
        ELSE [err |-> NoError, doc |-> document]

GetCompanySubmissions(answers, document) == FetchDocument(answers.submissions, document)
GetCompanyFacts(answers, document) == FetchDocument(answers.facts, document)

CallMakeRequest ==
    /\ pc = "ready"
    /\ pc' = "done"
    /\ op' = "makeRequest"
    /\ \E endpoint \in {"submissions", "facts"} :
          /\ requests' = Append(requests, endpoint)
          /\ err' = makeRequest(status[endpoint]).err
          /\ ret' = makeRequest(status[endpoint]).body
    /\ UNCHANGED <<findIn, extractIn, result, consulted, clientIn, cli>>

CallGetCompanySubmissions ==
    /\ pc = "ready"
    /\ pc' = "done"
    /\ op' = "GetCompanySubmissions"
    /\ requests' = Append(requests, "submissions")
    /\ err' = GetCompanySubmissions(status, submissions).err
    /\ ret' = GetCompanySubmissions(status, submissions).doc
    /\ UNCHANGED <<findIn, extractIn, result, consulted, clientIn, cli>>

CallGetCompanyFacts ==
    /\ pc = "ready"
    /\ pc' = "done"
    /\ op' = "GetCompanyFacts"
    /\ requests' = Append(requests, "facts")
    /\ err' = GetCompanyFacts(status, facts).err
    /\ ret' = GetCompanyFacts(status, facts).doc
    /\ UNCHANGED <<findIn, extractIn, result, consulted, clientIn, cli>>

-----------------------------------------------------------------------------
(* The filing selector: parseFilings, toString, GetMostRecent10Q,          *)
(* GetMostRecent4TenQs                                                     *)

\* the elements of the parallel arrays of a submissions document
JString(s) == [kind |-> "string", str |-> s]
JNull == [kind |-> "null", str |-> ""]
JBool(b) == [kind |-> "bool", str |-> IF b THEN "true" ELSE "false"]

\* nil formatted like every other value, with "%v"
toStringVerb(v) ==
    CASE v.kind = "null" -> "<nil>"
      [] v.kind = "string" -> v.str
      [] v.kind = "bool" -> IF v.str = "true" THEN "1" ELSE "0"

\* toString: "" for nil, the string itself, "1" or "0" for a bool
toString(v) ==
    CASE v.kind = "null" -> ""
      [] v.kind = "string" -> v.str
      [] v.kind = "bool" -> IF v.str = "true" THEN "1" ELSE "0"

\* the date strings of the documents, in lexicographic order
AllDateStrings ==
    <<"2023-03-31", "2023-06-30", "2023-09-30", "2023-12-31",
      "2024-03-31", "2024-06-30", "2024-09-30", "2024-12-31">>
DateString(rank) == AllDateStrings[rank]
\* the rank that stands for a Go string in the model
RankOf(s) == IF s = "" THEN EmptyDate ELSE IndexOf(AllDateStrings, s)

Filing(accessionNumber, filingDate, reportDate, form) ==
    [AccessionNumber |-> accessionNumber, FilingDate |-> filingDate,
     ReportDate |-> reportDate, Form |-> form]

\* the arrays parseFilings indexes: four of them, and the length of the
\* shortest of the eight others (fileNumber .. primaryDocDescription)
ArraysCover(recent, count) ==
    /\ Len(recent.filingDate) >= count
    /\ Len(recent.reportDate) >= count
    /\ Len(recent.form) >= count
    /\ recent.otherLen >= count

\* the filings of the document, or the index-out-of-range panic of Go
parseFilings(recent) ==
    LET count == Len(recent.accessionNumber)
    IN  IF count = 0 THEN [panic |-> FALSE, filings |-> <<>>]
        ELSE IF ~ ArraysCover(recent, count) THEN [panic |-> TRUE, filings |-> <<>>]
        ELSE [panic |-> FALSE,
              filings |-> [i \in 1..count |->
                  Filing(toString(recent.accessionNumber[i]),
                         RankOf(toString(recent.filingDate[i])),
                         RankOf(toString(recent.reportDate[i])),
                         toString(recent.form[i]))]]

\* the filter left out: every form passes
IsTenQAnyForm(f) == TRUE

\* filing.Form == "10-Q"
IsTenQ(f) == f.Form = TenQ

TenQFilings(filings) == SelectSeq(filings, IsTenQ)

\* the comparison reversed: the earlier filing first
FiledBefore(a, b) == a.FilingDate < b.FilingDate

\* the less function of the sort: a stands before b
FiledAfter(a, b) == a.FilingDate > b.FilingDate

RECURSIVE SortResults(_, _)
\* sort.Slice(fs, FiledAfter) on the filings at the positions idx: every order
\* in which no filing stands before one that must precede it (the sort is not
\* stable, so filings of one date end in any order)
SortResults(fs, idx) ==
    IF idx = {} THEN {<<>>}
    ELSE UNION {{<<fs[i]>> \o rest : rest \in SortResults(fs, idx \ {i})} :
                  i \in {j \in idx : \A k \in idx : ~ FiledAfter(fs[k], fs[j])}}

MaxQuarters == 4

\* the cap left out: every 10-Q filing is returned
QuarterCountUncapped(n) == n

\* the count of filings GetMostRecent4TenQs returns
QuarterCount(n) == IF n > MaxQuarters THEN MaxQuarters ELSE n

ErrGettingSubmissions == "error getting company submissions"
ErrNoTenQ == "no 10-Q filings found"
NoFiling == <<>>

\* the 10-Q filings sorted by filing date, most recent first: the common part
\* of GetMostRecent10Q and GetMostRecent4TenQs
SortedTenQOutcomes(answers, document) ==
    LET got == GetCompanySubmissions(answers, document)
    IN  IF got.err # NoError
        THEN {[panic |-> FALSE, err |-> Wrap(ErrGettingSubmissions, got.err), sorted |-> <<>>]}
        ELSE
          LET parsed == parseFilings(got.doc.recent)
              tenQFilings == TenQFilings(parsed.filings)
          IN  IF parsed.panic THEN {[panic |-> TRUE, err |-> NoError, sorted |-> <<>>]}
              ELSE IF Len(tenQFilings) = 0
              THEN {[panic |-> FALSE, err |-> <<ErrNoTenQ>>, sorted |-> <<>>]}
              ELSE {[panic |-> FALSE, err |-> NoError, sorted |-> o] :
                      o \in SortResults(tenQFilings, DOMAIN tenQFilings)}

GetMostRecent10QOutcomes(answers, document) ==
    {[panic |-> o.panic, err |-> o.err,
      filing |-> IF o.err = NoError /\ ~ o.panic THEN o.sorted[1] ELSE NoFiling] :
        o \in SortedTenQOutcomes(answers, document)}

GetMostRecent4TenQsOutcomes(answers, document) ==
    {[panic |-> o.panic, err |-> o.err,
      filings |-> SubSeq(o.sorted, 1, QuarterCount(Len(o.sorted)))] :
        o \in SortedTenQOutcomes(answers, document)}

ErrPanic == "panic: runtime error: index out of range"

\* the state after a call: returned ("done") or stopped by a panic
After(outcome) == IF outcome.panic THEN "panic" ELSE "done"
ErrorOf(outcome) == IF outcome.panic THEN <<ErrPanic>> ELSE outcome.err

CallGetMostRecent10Q ==
    /\ pc = "ready"
    /\ op' = "GetMostRecent10Q"
    /\ \E o \in GetMostRecent10QOutcomes(status, submissions) :
          /\ pc' = After(o)
          /\ err' = ErrorOf(o)
          /\ ret' = o.filing
    /\ requests' = Append(requests, "submissions")
    /\ UNCHANGED <<findIn, extractIn, result, consulted, clientIn, cli>>

CallGetMostRecent4TenQs ==
    /\ pc = "ready"
    /\ op' = "GetMostRecent4TenQs"
    /\ \E o \in GetMostRecent4TenQsOutcomes(status, submissions) :
          /\ pc' = After(o)
          /\ err' = ErrorOf(o)
          /\ ret' = o.filings
    /\ requests' = Append(requests, "submissions")
    /\ UNCHANGED <<findIn, extractIn, result, consulted, clientIn, cli>>


-----------------------------------------------------------------------------
(* The company-facts document and the metric records *)

\* the candidate tags of each metric, in priority order
OperatingCashFlowTags ==
    <<"NetCashProvidedByUsedInOperatingActivities", "NetCashFromOperatingActivities",
      "CashProvidedByUsedInOperatingActivities">>
CapitalExpendituresTags ==
    <<"PaymentsToAcquirePropertyPlantAndEquipment", "CapitalExpenditures",
      "PaymentsForPropertyPlantAndEquipment", "PaymentsToAcquireProductiveAssets">>
RevenueTags ==
    <<"Revenues", "RevenueFromContractWithCustomerExcludingAssessedTax", "SalesRevenueNet",
      "RevenueFromContractWithCustomerIncludingAssessedTax", "Revenue",
      "SalesRevenueGoodsNet", "RevenuesNetOfInterestExpense">>
NetIncomeTags ==
    <<"NetIncomeLoss", "ProfitLoss", "NetIncomeLossAvailableToCommonStockholdersBasic",
      "IncomeLossFromContinuingOperations">>
InterestExpenseTags ==
    <<"InterestExpense", "InterestExpenseDebt", "InterestAndDebtExpense", "InterestExpenseNet">>
IncomeTaxExpenseTags ==
    <<"IncomeTaxExpenseBenefit", "ProvisionForIncomeTaxes", "IncomeTaxesPaid",
      "CurrentIncomeTaxExpenseBenefit">>
DepreciationAndAmortizationTags ==
    <<"DepreciationDepletionAndAmortization", "Depreciation", "DepreciationAndAmortization",
      "AmortizationOfIntangibleAssets", "DepreciationAmortizationAndAccretionNet">>

\* the CIK of a company-facts document: a JSON string or a JSON number, and
\* the other values the interface may hold: an int, a json.Number (the
\* literal of a number), nil
CIKString(chars) == [kind |-> "string", str |-> chars, num |-> 0]
CIKFloat(n) == [kind |-> "float64", str |-> <<>>, num |-> n]
CIKInt(n) == [kind |-> "int", str |-> <<>>, num |-> n]
CIKNumber(literal) == [kind |-> "json.Number", str |-> literal, num |-> 0]
CIKNil == [kind |-> "nil", str |-> <<>>, num |-> 0]

RECURSIVE FormatInt(_)
\* the decimal digits of n >= 0
FormatInt(n) ==
    IF n < 10 THEN DigitString(n) ELSE FormatInt(n \div 10) \o DigitString(n % 10)

\* a string CIK read as a number and written again
GetCIKStringReformatted(v) ==
    CASE v.kind \in {"string", "json.Number"} -> FormatInt(ParseDigits(v.str, 0))
      [] v.kind \in {"float64", "int"} -> FormatInt(v.num)
      [] OTHER -> <<"<", "n", "i", "l", ">">>

\* the type switch on cf.CIK; "%.0f" of an integral float64 and "%d" of an
\* int give the decimal digits, "%v" of nil gives "<nil>"
GetCIKString(v) ==
    CASE v.kind = "string" -> v.str
      [] v.kind = "json.Number" -> v.str
      [] v.kind = "float64" -> FormatInt(v.num)
      [] v.kind = "int" -> FormatInt(v.num)
      [] OTHER -> <<"<", "n", "i", "l", ">">>

\* facts.Facts: nil, or a map that holds a "us-gaap" map or not
FactsMap(isNil, hasUsGaap, taxonomy) ==
    [isNil |-> isNil, hasUsGaap |-> hasUsGaap, usGaap |-> taxonomy]
CompanyFacts(v, entity, factsMap) == [CIK |-> v, Entity |-> entity, Facts |-> factsMap]

\* the two dates of the filing taken for one another
NewCashFlowMetricsDatesSwapped(doc, f) ==
    [CompanyName |-> doc.Entity, CIK |-> GetCIKString(doc.CIK),
     FilingDate |-> f.ReportDate, ReportDate |-> f.FilingDate,
     NetCashFromOperatingActivities |-> 0, CapitalExpenditures |-> 0, FreeCashFlow |-> 0,
     Form |-> f.Form, AccessionNumber |-> f.AccessionNumber]

\* the record ParseCashFlowMetricsFromFacts starts from
NewCashFlowMetrics(doc, f) ==
    [CompanyName |-> doc.Entity, CIK |-> GetCIKString(doc.CIK),
     FilingDate |-> f.FilingDate, ReportDate |-> f.ReportDate,
     NetCashFromOperatingActivities |-> 0, CapitalExpenditures |-> 0, FreeCashFlow |-> 0,
     Form |-> f.Form, AccessionNumber |-> f.AccessionNumber]

\* a quotient of two float64: a fraction in lowest terms; a zero denominator
\* stands for the infinities and NaN that a division by 0 gives
RECURSIVE GCD(_, _)
GCD(a, b) == IF b = 0 THEN a ELSE GCD(b, a % b)
Abs(a) == IF a < 0 THEN 0 - a ELSE a
Sign(a) == IF a < 0 THEN 0 - 1 ELSE IF a > 0 THEN 1 ELSE 0
Fraction(num, den) ==
    IF den = 0 THEN [num |-> Sign(num), den |-> 0]
    ELSE LET g == GCD(Abs(num), Abs(den))
         IN  [num |-> (Sign(den) * num) \div g, den |-> Abs(den) \div g]
ZeroFraction == [num |-> 0, den |-> 1]

NewEBITDAMetrics(doc, f) ==
    [CompanyName |-> doc.Entity, CIK |-> GetCIKString(doc.CIK),
     FilingDate |-> f.FilingDate, ReportDate |-> f.ReportDate,
     Form |-> f.Form, AccessionNumber |-> f.AccessionNumber,
     Revenue |-> 0, NetIncome |-> 0, InterestExpense |-> 0, IncomeTaxExpense |-> 0,
     DepreciationAndAmortization |-> 0, EBITDA |-> 0, EBITDAMargin |-> ZeroFraction]

NoMetrics == <<>>

-----------------------------------------------------------------------------
(* The fact extractor and the metric calculator *)

\* what one call of extractMetric may return and leave behind the pointer,
\* over the orders in which the unit maps may be visited
ExtractOutcomes(taxonomy, tags, result0, reportDate) ==
    {[err |-> r.err, result |-> r.result] :
        r \in {extractMetric(taxonomy, tags, result0, reportDate, o) :
                 o \in UnitOrders(taxonomy, tags)}}

ErrFactsNil == "facts data is nil"
ErrNoUsGaap == "us-gaap taxonomy not found"

\* the two tests left out: the extraction goes on without a taxonomy
TaxonomyErrorNone(doc) == NoError

\* the error of the navigation to the us-gaap taxonomy
TaxonomyError(doc) ==
    IF doc.Facts.isNil THEN <<ErrFactsNil>>
    ELSE IF ~ doc.Facts.hasUsGaap THEN <<ErrNoUsGaap>>
    ELSE NoError

\* the error of extractMetric returned instead of logged
MissingMetricErrorReturned(e) == e

\* the error extractCashFlowData and extractEBITDAData return when a metric is
\* not found: none, the warning is only logged
MissingMetricError(e) == NoError

extractCashFlowData(doc, metrics, reportDate) ==
    IF TaxonomyError(doc) # NoError THEN {[err |-> TaxonomyError(doc), metrics |-> metrics]}
    ELSE
      {[err |-> MissingMetricError(ocf.err \o capex.err),
        metrics |-> [metrics EXCEPT !.NetCashFromOperatingActivities = ocf.result,
                                    !.CapitalExpenditures = capex.result]] :
          ocf \in ExtractOutcomes(doc.Facts.usGaap, OperatingCashFlowTags,
                                  metrics.NetCashFromOperatingActivities, reportDate),
          capex \in ExtractOutcomes(doc.Facts.usGaap, CapitalExpendituresTags,
                                    metrics.CapitalExpenditures, reportDate)}

\* capital expenditures added instead of subtracted
FreeCashFlowSum(metrics) == metrics.NetCashFromOperatingActivities + metrics.CapitalExpenditures

\* metrics.FreeCashFlow
FreeCashFlow(metrics) == metrics.NetCashFromOperatingActivities - metrics.CapitalExpenditures

ErrExtractingCashFlow == "error extracting cash flow data"

ParseCashFlowMetricsFromFacts(doc, f) ==
    {IF r.err # NoError
     THEN [err |-> Wrap(ErrExtractingCashFlow, r.err), metrics |-> NoMetrics]
     ELSE [err |-> NoError,
           metrics |-> [r.metrics EXCEPT !.FreeCashFlow = FreeCashFlow(r.metrics)]] :
        r \in extractCashFlowData(doc, NewCashFlowMetrics(doc, f), f.ReportDate)}

\* the separate depreciation and amortization figures added to the field
\* when the combined figure is not found
DepreciationFallback(taxonomy, da0, reportDate) ==
    {da0 + (IF d.err = NoError THEN d.result ELSE 0)
         + (IF a.err = NoError THEN a.result ELSE 0) :
        d \in ExtractOutcomes(taxonomy, DepreciationTags, 0, reportDate),
        a \in ExtractOutcomes(taxonomy, AmortizationTags, 0, reportDate)}

\* the fallback run whether the combined figure was found or not
DepreciationAndAmortizationAlwaysFallback(taxonomy, da0, reportDate) ==
    UNION {DepreciationFallback(taxonomy, r.result, reportDate) :
             r \in ExtractOutcomes(taxonomy, DepreciationAndAmortizationTags, da0, reportDate)}

\* the combined figure, or the fallback when extractMetric returns an error
DepreciationAndAmortizationOutcomes(taxonomy, da0, reportDate) ==
    UNION {IF r.err = NoError THEN {r.result}
           ELSE DepreciationFallback(taxonomy, r.result, reportDate) :
             r \in ExtractOutcomes(taxonomy, DepreciationAndAmortizationTags, da0, reportDate)}

extractEBITDAData(doc, metrics, reportDate) ==
    IF TaxonomyError(doc) # NoError THEN {[err |-> TaxonomyError(doc), metrics |-> metrics]}
    ELSE
      {[err |-> MissingMetricError(rev.err \o ni.err \o ie.err \o tax.err),
        metrics |-> [metrics EXCEPT !.Revenue = rev.result,
                                    !.NetIncome = ni.result,
                                    !.InterestExpense = ie.result,
                                    !.IncomeTaxExpense = tax.result,
                                    !.DepreciationAndAmortization = da]] :
          rev \in ExtractOutcomes(doc.Facts.usGaap, RevenueTags, metrics.Revenue, reportDate),
          ni \in ExtractOutcomes(doc.Facts.usGaap, NetIncomeTags, metrics.NetIncome, reportDate),
          ie \in ExtractOutcomes(doc.Facts.usGaap, InterestExpenseTags,
                                 metrics.InterestExpense, reportDate),
          tax \in ExtractOutcomes(doc.Facts.usGaap, IncomeTaxExpenseTags,
                                  metrics.IncomeTaxExpense, reportDate),
          da \in DepreciationAndAmortizationOutcomes(doc.Facts.usGaap,
                    metrics.DepreciationAndAmortization, reportDate)}

\* the income tax expense left out of the sum
EBITDAWithoutTax(metrics) ==
    metrics.NetIncome + metrics.InterestExpense + metrics.DepreciationAndAmortization

\* metrics.EBITDA
EBITDA(metrics) ==
    metrics.NetIncome + metrics.InterestExpense + metrics.IncomeTaxExpense
    + metrics.DepreciationAndAmortization

\* the division without the test of the revenue
EBITDAMarginUnguarded(metrics) == Fraction(metrics.EBITDA * 100, metrics.Revenue)

\* metrics.EBITDAMargin
EBITDAMargin(metrics) ==
    IF metrics.Revenue # 0 THEN Fraction(metrics.EBITDA * 100, metrics.Revenue)
    ELSE ZeroFraction

ErrExtractingEBITDA == "error extracting EBITDA data"

ParseEBITDAMetricsFromFacts(doc, f) ==
    {IF r.err # NoError
     THEN [err |-> Wrap(ErrExtractingEBITDA, r.err), metrics |-> NoMetrics]
     ELSE LET withSum == [r.metrics EXCEPT !.EBITDA = EBITDA(r.metrics)]
          IN  [err |-> NoError,
               metrics |-> [withSum EXCEPT !.EBITDAMargin = EBITDAMargin(withSum)]] :
        r \in extractEBITDAData(doc, NewEBITDAMetrics(doc, f), f.ReportDate)}

ErrGettingFacts == "error getting company facts"

\* ParseCashFlowMetrics and ParseEBITDAMetrics fetch the document first
ParseCashFlowMetrics(answers, document, f) ==
    LET got == GetCompanyFacts(answers, document)
    IN  IF got.err # NoError
        THEN {[err |-> Wrap(ErrGettingFacts, got.err), metrics |-> NoMetrics]}
        ELSE ParseCashFlowMetricsFromFacts(got.doc, f)

ParseEBITDAMetrics(answers, document, f) ==
    LET got == GetCompanyFacts(answers, document)
    IN  IF got.err # NoError
        THEN {[err |-> Wrap(ErrGettingFacts, got.err), metrics |-> NoMetrics]}
        ELSE ParseEBITDAMetricsFromFacts(got.doc, f)

CallParseCashFlowMetricsFromFacts ==
    /\ pc = "ready"
    /\ pc' = "done"
    /\ op' = "ParseCashFlowMetricsFromFacts"
    /\ \E o \in ParseCashFlowMetricsFromFacts(facts, filing) :
          err' = o.err /\ ret' = o.metrics
    /\ UNCHANGED <<findIn, extractIn, result, consulted, clientIn, requests, cli>>

CallParseEBITDAMetricsFromFacts ==
    /\ pc = "ready"
    /\ pc' = "done"
    /\ op' = "ParseEBITDAMetricsFromFacts"
    /\ \E o \in ParseEBITDAMetricsFromFacts(facts, filing) :
          err' = o.err /\ ret' = o.metrics
    /\ UNCHANGED <<findIn, extractIn, result, consulted, clientIn, requests, cli>>

CallParseCashFlowMetrics ==
    /\ pc = "ready"
    /\ pc' = "done"
    /\ op' = "ParseCashFlowMetrics"
    /\ \E o \in ParseCashFlowMetrics(status, facts, filing) :
          err' = o.err /\ ret' = o.metrics
    /\ requests' = Append(requests, "facts")
    /\ UNCHANGED <<findIn, extractIn, result, consulted, clientIn, cli>>

CallParseEBITDAMetrics ==
    /\ pc = "ready"
    /\ pc' = "done"
    /\ op' = "ParseEBITDAMetrics"
    /\ \E o \in ParseEBITDAMetrics(status, facts, filing) :
          err' = o.err /\ ret' = o.metrics
    /\ requests' = Append(requests, "facts")
    /\ UNCHANGED <<findIn, extractIn, result, consulted, clientIn, cli>>


-----------------------------------------------------------------------------
(* The quarterly analyses *)

ErrGettingTenQs == "error getting recent 10-Q filings"
ErrNoCashFlowMetrics == "no cash flow metrics could be extracted from any 10-Q filings"
ErrNoEBITDAMetrics == "no EBITDA metrics could be extracted from any 10-Q filings"
NoAnalysis == <<>>

RECURSIVE CashFlowQuarters(_, _, _)
\* analysis.Quarters after the loop over the first k filings: a filing whose
\* metrics cannot be parsed is skipped
CashFlowQuarters(doc, filings, k) ==
    IF k = 0 THEN {<<>>}
    ELSE UNION {{IF o.err # NoError THEN qs ELSE Append(qs, o.metrics) :
                   o \in ParseCashFlowMetricsFromFacts(doc, filings[k])} :
                 qs \in CashFlowQuarters(doc, filings, k - 1)}

RECURSIVE EBITDAQuarters(_, _, _)
EBITDAQuarters(doc, filings, k) ==
    IF k = 0 THEN {<<>>}
    ELSE UNION {{IF o.err # NoError THEN qs ELSE Append(qs, o.metrics) :
                   o \in ParseEBITDAMetricsFromFacts(doc, filings[k])} :
                 qs \in EBITDAQuarters(doc, filings, k - 1)}

\* the possible results of the loop over the filings
\* every quarter put before the ones found so far: the order reversed
QuartersPrepended(doc, filings, ofEBITDA) ==
    {[i \in 1..Len(qs) |-> qs[Len(qs) + 1 - i]] :
        qs \in (IF ofEBITDA THEN EBITDAQuarters(doc, filings, Len(filings))
                ELSE CashFlowQuarters(doc, filings, Len(filings)))}

\* the quarters of the loop over the filings, appended in their order
Quarters(doc, filings, ofEBITDA) ==
    IF ofEBITDA THEN EBITDAQuarters(doc, filings, Len(filings))
    ELSE CashFlowQuarters(doc, filings, Len(filings))

\* every quarter fetched with ParseCashFlowMetrics or ParseEBITDAMetrics: one
\* facts request a filing
QuarterRequestsFetching(n) == [i \in 1..n |-> "facts"]

\* the requests of the loop over n filings: none, the loop works on the
\* document fetched before it
QuarterRequests(n) == <<>>

\* the test of the length left out: an analysis without quarters is returned
NoQuartersNever(qs) == FALSE

\* len(analysis.Quarters) == 0
NoQuarters(qs) == Len(qs) = 0

\* the part the two analyses share: the filings, then the facts, then the
\* quarters
AnalysisOutcomes(answers, subs, document, ofEBITDA, errNoMetrics) ==
    UNION {
      IF o.panic
      THEN {[panic |-> TRUE, err |-> NoError, analysis |-> NoAnalysis,
             requests |-> <<"submissions">>]}
      ELSE IF o.err # NoError
      THEN {[panic |-> FALSE, err |-> Wrap(ErrGettingTenQs, o.err), analysis |-> NoAnalysis,
             requests |-> <<"submissions">>]}
      ELSE
        LET got == GetCompanyFacts(answers, document)
        IN  IF got.err # NoError
            THEN {[panic |-> FALSE, err |-> Wrap(ErrGettingFacts, got.err),
                   analysis |-> NoAnalysis, requests |-> <<"submissions", "facts">>]}
            ELSE {IF NoQuarters(qs)
                  THEN [panic |-> FALSE, err |-> <<errNoMetrics>>, analysis |-> NoAnalysis,
                        requests |-> <<"submissions", "facts">>
                                     \o QuarterRequests(Len(o.filings))]
                  ELSE [panic |-> FALSE, err |-> NoError,
                        analysis |-> [CompanyName |-> got.doc.Entity,
                                      CIK |-> GetCIKString(got.doc.CIK),
                                      Quarters |-> qs],
                        requests |-> <<"submissions", "facts">>
                                     \o QuarterRequests(Len(o.filings))] :
                    qs \in Quarters(got.doc, o.filings, ofEBITDA)}
      : o \in GetMostRecent4TenQsOutcomes(answers, subs)}

GetQuarterlyCashFlowAnalysis(answers, subs, document) ==
    AnalysisOutcomes(answers, subs, document, FALSE, ErrNoCashFlowMetrics)

GetQuarterlyEBITDAAnalysis(answers, subs, document) ==
    AnalysisOutcomes(answers, subs, document, TRUE, ErrNoEBITDAMetrics)

CallGetQuarterlyCashFlowAnalysis ==
    /\ pc = "ready"
    /\ op' = "GetQuarterlyCashFlowAnalysis"
    /\ \E o \in GetQuarterlyCashFlowAnalysis(status, submissions, facts) :
          /\ pc' = After(o)
          /\ err' = ErrorOf(o)
          /\ ret' = o.analysis
          /\ requests' = requests \o o.requests
    /\ UNCHANGED <<findIn, extractIn, result, consulted, clientIn, cli>>

CallGetQuarterlyEBITDAAnalysis ==
    /\ pc = "ready"
    /\ op' = "GetQuarterlyEBITDAAnalysis"
    /\ \E o \in GetQuarterlyEBITDAAnalysis(status, submissions, facts) :
          /\ pc' = After(o)
          /\ err' = ErrorOf(o)
          /\ ret' = o.analysis
          /\ requests' = requests \o o.requests
    /\ UNCHANGED <<findIn, extractIn, result, consulted, clientIn, cli>>

NextClient ==
    \/ CallGetMostRecent10Q
    \/ CallGetMostRecent4TenQs
    \/ CallParseCashFlowMetricsFromFacts
    \/ CallParseEBITDAMetricsFromFacts
    \/ CallParseCashFlowMetrics
    \/ CallParseEBITDAMetrics
    \/ CallGetQuarterlyCashFlowAnalysis
    \/ CallGetQuarterlyEBITDAAnalysis

-----------------------------------------------------------------------------
(* The documents of the model *)

MaxFilings == 5
MaxPresentTags == 2

AccessionNumbers ==
    <<"0000320193-24-000001", "0000320193-24-000002", "0000320193-24-000003",
      "0000320193-24-000004", "0000320193-24-000005", "0000320193-24-000006",
      "0000320193-24-000007", "0000320193-24-000008">>

\* a filing of a submissions document: its form and the rank of its filing
\* date; the filings that are no 10-Q (a 10-K, a 10-Q/A) have the latest date
FilingDateRanks == {1, 2, 3}
FilingShapes ==
    {[form |-> TenQ, filed |-> d] : d \in FilingDateRanks}
    \cup {[form |-> f, filed |-> 3] : f \in {TenK, "10-Q/A"}}

\* the arrays that may be one element short of accessionNumber
ShortArrays == {"none", "filingDate", "reportDate", "form", "others"}
Shorten(array, isShort) == IF isShort THEN SubSeq(array, 1, Len(array) - 1) ELSE array

\* the document with the given filings; the report dates are 2, 3, 1, 2, ...
SubmissionsOf(shapes, short) ==
    LET n == Len(shapes)
    IN  [recent |->
          [accessionNumber |-> [i \in 1..n |-> JString(AccessionNumbers[i])],
           filingDate |-> Shorten([i \in 1..n |-> JString(DateString(shapes[i].filed))],
                                  short = "filingDate"),
           reportDate |-> Shorten([i \in 1..n |-> JString(DateString((i % 3) + 1))],
                                  short = "reportDate"),
           form |-> Shorten([i \in 1..n |-> JString(shapes[i].form)], short = "form"),
           otherLen |-> IF short = "others" THEN n - 1 ELSE n]]

AllTags ==
    OperatingCashFlowTags \o CapitalExpendituresTags \o RevenueTags \o NetIncomeTags
    \o InterestExpenseTags \o IncomeTaxExpenseTags \o DepreciationAndAmortizationTags
    \o <<"DepreciationNonproduction", "Amortization">>

\* the tags the documents of the model may hold: the first candidate of each
\* metric, the last candidate of the operating cash flow,
\* and tags of depreciation and amortization, combined and separate
PopulatedTags ==
    {tags[1] : tags \in {OperatingCashFlowTags, CapitalExpendituresTags, RevenueTags,
                         NetIncomeTags, InterestExpenseTags, IncomeTaxExpenseTags}}
    \cup {OperatingCashFlowTags[Len(OperatingCashFlowTags)]}
    \cup {"DepreciationDepletionAndAmortization", "Depreciation", "DepreciationNonproduction",
          "AmortizationOfIntangibleAssets", "Amortization"}

RECURSIVE SubsetsUpTo(_, _)
\* the subsets of S of at most k elements
SubsetsUpTo(S, k) ==
    IF k = 0 THEN {{}}
    ELSE LET smaller == SubsetsUpTo(S, k - 1)
         IN  smaller \cup {p \cup {x} : p \in smaller, x \in S}

\* the concepts of a company-facts document: a USD series with one 10-Q
\* observation on report date 2 whose value is not 0, or is 0; one with an 8-K
\* observation on date 3; an empty USD series beside a USD/shares series; a
\* concept without units
FactShapes ==
    {[kind |-> "units", isArray |-> TRUE, usd |-> <<DataPoint(2, TenQ, k)>>, second |-> "none"] :
        k \in {"float64", "zero"}}
    \cup {[kind |-> "units", isArray |-> TRUE, usd |-> <<DataPoint(3, OtherForm, "float64")>>,
           second |-> "none"],
          [kind |-> "units", isArray |-> TRUE, usd |-> <<>>, second |-> "USD/shares"],
          [kind |-> "no units", isArray |-> FALSE, usd |-> <<>>, second |-> "none"]}

FactsTaxonomyOf(shapes) ==
    [t \in DOMAIN shapes |-> ConceptOf(shapes[t], 100 * IndexOf(AllTags, t))]

\* a taxonomy with revenue, net income and operating cash flow
SampleFacts ==
    [t \in {"Revenues", "NetIncomeLoss", "NetCashProvidedByUsedInOperatingActivities"} |->
        [kind |-> "units", isArray |-> TRUE, usd |-> <<DataPoint(2, TenQ, "float64")>>,
         second |-> "none"]]

EntityName == "Apple Inc."
CIKs == {CIKFloat(320193), CIKString(<<"0", "0", "0", "0", "3", "2", "0", "1", "9", "3">>)}

AllOK == [submissions |-> AnswerOK, facts |-> AnswerOK]

\* a 10-Q filing of report date r
TenQFiling(r) == Filing(AccessionNumbers[1], 3, r, TenQ)

-----------------------------------------------------------------------------
(* Specification of the operations on a company-facts document *)

InitFacts ==
    /\ pc = "ready"
    /\ op = ""
    /\ IdleFind
    /\ targetDate = EmptyDate
    /\ IdleExtract
    /\ submissions = SubmissionsOf(<<[form |-> TenQ, filed |-> 2], [form |-> TenK, filed |-> 3],
                                     [form |-> TenQ, filed |-> 3]>>, "none")
    /\ \/ \E present \in SubsetsUpTo(PopulatedTags, MaxPresentTags) :
            \E shapes \in [present -> FactShapes] :
               facts = CompanyFacts(CIKFloat(320193), EntityName,
                                    FactsMap(FALSE, TRUE, FactsTaxonomyOf(shapes)))
       \/ \E v \in CIKs : \E isNil \in BOOLEAN :
            facts = CompanyFacts(v, EntityName, FactsMap(isNil, FALSE, NoTaxonomy))
    /\ status = AllOK
    /\ filing \in {TenQFiling(r) : r \in ReportDates}
    /\ requests = <<>>
    /\ err = NoError
    /\ ret = 0
    /\ IdleCLI

SpecFacts == InitFacts /\ [][NextClient]_vars

-----------------------------------------------------------------------------
(* Specification of the operations on a submissions document *)

InitFilings ==
    /\ pc = "ready"
    /\ op = ""
    /\ IdleFind
    /\ targetDate = EmptyDate
    /\ IdleExtract
    /\ \E n \in 0..MaxFilings : \E shapes \in [1..n -> FilingShapes] :
          \E short \in (IF n \in 1..2 THEN ShortArrays ELSE {"none"}) :
             submissions = SubmissionsOf(shapes, short)
    /\ \E isNil \in BOOLEAN :
          facts = CompanyFacts(CIKFloat(320193), EntityName,
                               FactsMap(isNil, ~ isNil, FactsTaxonomyOf(SampleFacts)))
    /\ status = AllOK
    /\ filing = TenQFiling(2)
    /\ requests = <<>>
    /\ err = NoError
    /\ ret = 0
    /\ IdleCLI

SpecFilings == InitFilings /\ [][NextClient]_vars


-----------------------------------------------------------------------------
(* Vocabulary of the claims about the metric records *)

Returned(name) == pc = "done" /\ op = name /\ err = NoError

\* the cash-flow records an operation returned
CashFlowRecords ==
    IF Returned("ParseCashFlowMetricsFromFacts") \/ Returned("ParseCashFlowMetrics")
    THEN {ret}
    ELSE IF Returned("GetQuarterlyCashFlowAnalysis")
    THEN {ret.Quarters[i] : i \in DOMAIN ret.Quarters}
    ELSE {}

\* the EBITDA records an operation returned
EBITDARecords ==
    IF Returned("ParseEBITDAMetricsFromFacts") \/ Returned("ParseEBITDAMetrics")
    THEN {ret}
    ELSE IF Returned("GetQuarterlyEBITDAAnalysis")
    THEN {ret.Quarters[i] : i \in DOMAIN ret.Quarters}
    ELSE {}

(* C4: every cash-flow record returned by ParseCashFlowMetrics,             *)
(* ParseCashFlowMetricsFromFacts or inside GetQuarterlyCashFlowAnalysis has *)
(* FreeCashFlow = NetCashFromOperatingActivities - CapitalExpenditures.     *)
C4_FreeCashFlow ==
    \A m \in CashFlowRecords :
        m.FreeCashFlow = m.NetCashFromOperatingActivities - m.CapitalExpenditures

\* an analysis of two quarters with both inputs extracted
C4_Witness ==
    /\ Returned("GetQuarterlyCashFlowAnalysis")
    /\ Len(ret.Quarters) = 2
    /\ \A m \in CashFlowRecords :
          m.NetCashFromOperatingActivities # 0 /\ m.CapitalExpenditures # 0

(* C5: every EBITDA record returned by ParseEBITDAMetrics,                  *)
(* ParseEBITDAMetricsFromFacts or inside GetQuarterlyEBITDAAnalysis has     *)
(* EBITDA = NetIncome + InterestExpense + IncomeTaxExpense +                *)
(* DepreciationAndAmortization, the addends being those of the record.      *)
C5_EBITDASum ==
    \A m \in EBITDARecords :
        m.EBITDA = m.NetIncome + m.InterestExpense + m.IncomeTaxExpense
                   + m.DepreciationAndAmortization

\* a record with a tax expense and a depreciation that were extracted
C5_Witness ==
    /\ Returned("ParseEBITDAMetrics")
    /\ ret.IncomeTaxExpense # 0
    /\ ret.DepreciationAndAmortization # 0
    /\ ret.EBITDA = ret.IncomeTaxExpense + ret.DepreciationAndAmortization

(* C6: in every EBITDA record returned, EBITDAMargin is EBITDA / Revenue *  *)
(* 100 when Revenue is not 0, and 0 when Revenue is 0; no quotient by a     *)
(* zero revenue (an infinity or NaN) is stored.                             *)
C6_EBITDAMargin ==
    \A m \in EBITDARecords :
        /\ m.EBITDAMargin.den # 0
        /\ m.Revenue # 0 => m.EBITDAMargin.num * m.Revenue = m.EBITDA * 100 * m.EBITDAMargin.den
        /\ m.Revenue = 0 => m.EBITDAMargin.num = 0

\* a margin that is no integer
C6_Witness ==
    /\ Returned("ParseEBITDAMetricsFromFacts")
    /\ ret.Revenue # 0
    /\ ret.EBITDA # 0
    /\ ret.EBITDAMargin.den > 1


-----------------------------------------------------------------------------
(* Vocabulary of the claims about the filing selector *)

Recent == submissions.recent
\* the positions of the document's filings whose form is "10-Q"
DocTenQ == {i \in 1..Len(Recent.form) : Recent.form[i] = JString(TenQ)}
DocFiled(i) == RankOf(Recent.filingDate[i].str)
DocAccession(i) == Recent.accessionNumber[i].str
Min(a, b) == IF a < b THEN a ELSE b
ReturnedAccessions == {ret[i].AccessionNumber : i \in DOMAIN ret}

(* C7: the list GetMostRecent4TenQs returns on success holds only filings   *)
(* of the document whose form is exactly "10-Q", each once, is sorted by    *)
(* filing date descending, has min(4, number of 10-Q filings) >= 1          *)
(* elements, and every returned filing is filed no earlier than every 10-Q  *)
(* filing that was not returned.                                            *)
C7_FourMostRecentTenQs ==
    Returned("GetMostRecent4TenQs") =>
        /\ \A i \in DOMAIN ret :
              /\ ret[i].Form = TenQ
              /\ \E j \in DocTenQ :
                    DocAccession(j) = ret[i].AccessionNumber /\ DocFiled(j) = ret[i].FilingDate
        /\ \A i, k \in DOMAIN ret : i # k => ret[i].AccessionNumber # ret[k].AccessionNumber
        /\ \A i \in 1..(Len(ret) - 1) : ret[i].FilingDate >= ret[i + 1].FilingDate
        /\ Len(ret) >= 1
        /\ Len(ret) = Min(4, Cardinality(DocTenQ))
        /\ \A j \in DocTenQ :
              DocAccession(j) \notin ReturnedAccessions =>
                  \A i \in DOMAIN ret : ret[i].FilingDate >= DocFiled(j)

\* five 10-Q filings of which the oldest, not the last of the document, is
\* left out
C7_Witness ==
    /\ Returned("GetMostRecent4TenQs")
    /\ Cardinality(DocTenQ) = 5
    /\ Len(ret) = 4
    /\ ret[1].FilingDate > ret[4].FilingDate
    /\ DocAccession(5) \in ReturnedAccessions
    /\ \E j \in DocTenQ : DocFiled(j) < ret[4].FilingDate

(* C8: for a document with at least one 10-Q filing GetMostRecent10Q        *)
(* returns a filing of the document whose form is "10-Q" and whose filing   *)
(* date is the maximum over the document's 10-Q filings, wherever that      *)
(* filing stands in the arrays and whatever later filings of other forms    *)
(* the document holds.                                                      *)
C8_MostRecentTenQ ==
    (pc = "done" /\ op = "GetMostRecent10Q" /\ DocTenQ # {}) =>
        /\ err = NoError
        /\ ret.Form = TenQ
        /\ \E j \in DocTenQ :
              DocAccession(j) = ret.AccessionNumber /\ DocFiled(j) = ret.FilingDate
        /\ \A j \in DocTenQ : ret.FilingDate >= DocFiled(j)

\* the most recent 10-Q is neither the first nor the last filing of the
\* document, and a 10-K was filed after it
C8_Witness ==
    /\ Returned("GetMostRecent10Q")
    /\ Len(Recent.form) >= 3
    /\ ret.AccessionNumber = DocAccession(2)
    /\ Recent.form[1] = JString(TenQ)
    /\ DocFiled(1) < ret.FilingDate
    /\ \E i \in 1..Len(Recent.form) :
          Recent.form[i] = JString(TenK) /\ DocFiled(i) > ret.FilingDate

\* the elements of an error chain
Messages(e) == {e[i] : i \in DOMAIN e}

(* C9: when no filing of the submissions document has the form "10-Q" (an   *)
(* empty list, or only other forms), GetMostRecent10Q and                   *)
(* GetMostRecent4TenQs return an error containing "no 10-Q filings found"   *)
(* and no filing, and the quarterly analyses built on them stop there: no   *)
(* facts request is sent and no metrics are computed.                       *)
C9_NoTenQFound ==
    (/\ pc = "done"
     /\ op \in {"GetMostRecent10Q", "GetMostRecent4TenQs",
                "GetQuarterlyCashFlowAnalysis", "GetQuarterlyEBITDAAnalysis"}
     /\ DocTenQ = {}) =>
        /\ ErrNoTenQ \in Messages(err)
        /\ requests = <<"submissions">>
        /\ ret = <<>>

\* a document of a 10-K and an amended 10-Q, given to an analysis
C9_Witness ==
    /\ pc = "done"
    /\ op = "GetQuarterlyEBITDAAnalysis"
    /\ DocTenQ = {}
    /\ \E i, j \in 1..Len(Recent.form) :
          Recent.form[i] = JString(TenK) /\ Recent.form[j] = JString("10-Q/A")
    /\ err = <<ErrGettingTenQs, ErrNoTenQ>>

-----------------------------------------------------------------------------
(* Vocabulary of the claim about missing metrics *)

\* a candidate tag holds, in a USD series, an observation the scan can
\* return as found: its end and form are strings, its value a number but 0
HasUsableValue(tags) ==
    \E k \in DOMAIN tags :
        /\ HasUnitsMap(facts.Facts.usGaap, tags[k])
        /\ \E u \in DOMAIN facts.Facts.usGaap[tags[k]].units :
              /\ IsUSDUnit(u)
              /\ facts.Facts.usGaap[tags[k]].units[u].isArray
              /\ \E i \in DOMAIN facts.Facts.usGaap[tags[k]].units[u].data :
                    LET dp == facts.Facts.usGaap[tags[k]].units[u].data[i]
                    IN  IsScanned(dp) /\ IsNumeric(dp) /\ NumericValue(dp) # 0

HasUsGaap == ~ facts.Facts.isNil /\ facts.Facts.hasUsGaap

(* C10: for a company-facts document with a us-gaap taxonomy                *)
(* ParseCashFlowMetricsFromFacts and ParseEBITDAMetricsFromFacts return no  *)
(* error, whatever metrics are missing, and every metric field none of      *)
(* whose candidate tags holds a usable value is 0 in the returned record.   *)
C10_MissingMetricsTolerated ==
    /\ (pc = "done" /\ op = "ParseCashFlowMetricsFromFacts" /\ HasUsGaap) =>
          /\ err = NoError
          /\ ~ HasUsableValue(OperatingCashFlowTags) => ret.NetCashFromOperatingActivities = 0
          /\ ~ HasUsableValue(CapitalExpendituresTags) => ret.CapitalExpenditures = 0
    /\ (pc = "done" /\ op = "ParseEBITDAMetricsFromFacts" /\ HasUsGaap) =>
          /\ err = NoError
          /\ ~ HasUsableValue(RevenueTags) => ret.Revenue = 0
          /\ ~ HasUsableValue(NetIncomeTags) => ret.NetIncome = 0
          /\ ~ HasUsableValue(InterestExpenseTags) => ret.InterestExpense = 0
          /\ ~ HasUsableValue(IncomeTaxExpenseTags) => ret.IncomeTaxExpense = 0
          /\ ~ HasUsableValue(DepreciationAndAmortizationTags \o DepreciationTags
                              \o AmortizationTags) => ret.DepreciationAndAmortization = 0

\* revenue is present with a value of 0, interest expense was found, the
\* other metrics are missing
C10_Witness ==
    /\ Returned("ParseEBITDAMetricsFromFacts")
    /\ HasUsGaap
    /\ "Revenues" \in DOMAIN facts.Facts.usGaap
    /\ ~ HasUsableValue(RevenueTags)
    /\ ~ HasUsableValue(NetIncomeTags)
    /\ ret.Revenue = 0
    /\ ret.InterestExpense # 0


-----------------------------------------------------------------------------
(* Specification of the operations against a server that may fail *)

\* the status codes of the server of the model
StatusCodes == {StatusOK, 204, 404, 500}
Answers ==
    {ServerAnswer(TRUE, 0, FALSE)}
    \cup {ServerAnswer(FALSE, code, valid) : code \in StatusCodes, valid \in BOOLEAN}

InitFetch ==
    /\ pc = "ready"
    /\ op = ""
    /\ IdleFind
    /\ targetDate = EmptyDate
    /\ IdleExtract
    /\ submissions \in
          {SubmissionsOf(<<[form |-> TenQ, filed |-> 2], [form |-> TenK, filed |-> 3],
                           [form |-> TenQ, filed |-> 3]>>, "none"),
           SubmissionsOf(<<[form |-> TenK, filed |-> 3]>>, "none")}
    /\ \E v \in CIKs :
          facts = CompanyFacts(v, EntityName,
                               FactsMap(FALSE, TRUE, FactsTaxonomyOf(SampleFacts)))
    /\ status \in [submissions : Answers, facts : Answers]
    /\ filing = TenQFiling(2)
    /\ requests = <<>>
    /\ err = NoError
    /\ ret = 0
    /\ IdleCLI

NextFetch ==
    \/ CallMakeRequest
    \/ CallGetCompanySubmissions
    \/ CallGetCompanyFacts
    \/ NextClient

SpecFetch == InitFetch /\ [][NextFetch]_vars

-----------------------------------------------------------------------------
(* Vocabulary of the claim about failed fetches *)

\* the transport failed, or the response has a status code that is not 200
FetchFailed(endpoint) == status[endpoint].failed \/ status[endpoint].code # 200

\* the text the error of a response of that status code contains
StatusText(code) ==
    CASE code = 204 -> "unexpected status code: 204"
      [] code = 404 -> "unexpected status code: 404"
      [] code = 500 -> "unexpected status code: 500"

\* the error of makeRequest stands at the end of the chain
CarriesFetchError(endpoint) ==
    /\ err # NoError
    /\ ~ status[endpoint].failed => err[Len(err)] = StatusText(status[endpoint].code)
    /\ status[endpoint].failed => err[Len(err)] = "error making request"

\* the endpoint whose failure ends the operation, "" when there is none
FailingEndpoint ==
    CASE op \in {"makeRequest", "GetCompanySubmissions", "GetCompanyFacts"} ->
           IF FetchFailed(requests[1]) THEN requests[1] ELSE ""
      [] op \in {"GetMostRecent10Q", "GetMostRecent4TenQs"} ->
           IF FetchFailed("submissions") THEN "submissions" ELSE ""
      [] op \in {"ParseCashFlowMetrics", "ParseEBITDAMetrics"} ->
           IF FetchFailed("facts") THEN "facts" ELSE ""
      [] op \in {"GetQuarterlyCashFlowAnalysis", "GetQuarterlyEBITDAAnalysis"} ->
           IF FetchFailed("submissions") THEN "submissions"
           ELSE IF DocTenQ # {} /\ status.submissions.valid /\ FetchFailed("facts")
           THEN "facts" ELSE ""
      [] OTHER -> ""

(* C11: a failed fetch (the transport fails, or the status code is not 200) *)
(* makes makeRequest return an error, for a status code one containing      *)
(* "unexpected status code: <code>", and no body; GetCompanyFacts and       *)
(* GetCompanySubmissions return that very error, and GetMostRecent10Q,      *)
(* GetMostRecent4TenQs, ParseCashFlowMetrics, ParseEBITDAMetrics and the    *)
(* quarterly analyses return an error that carries it and a nil result.     *)
C11_FailedFetchPropagates ==
    (pc = "done" /\ FailingEndpoint # "") =>
        /\ CarriesFetchError(FailingEndpoint)
        /\ requests[Len(requests)] = FailingEndpoint
        /\ op \in {"makeRequest", "GetCompanySubmissions", "GetCompanyFacts"} => Len(err) = 1
        /\ ret = <<>>

\* the submissions were fetched and hold 10-Q filings, the facts request is
\* answered 500, and the analysis returns the wrapped error and nothing else
C11_Witness ==
    /\ pc = "done"
    /\ op = "GetQuarterlyEBITDAAnalysis"
    /\ ~ FetchFailed("submissions")
    /\ FailingEndpoint = "facts"
    /\ requests = <<"submissions", "facts">>
    /\ err = <<"error getting company facts", "unexpected status code: 500">>


-----------------------------------------------------------------------------
(* The command line: main *)

MaxCIKLen == 11
KeyWidth == 10

\* the flags as flag.Parse leaves them; hasCIK tells whether -cik was given
Flags(hasCIK, cikFlag, quarterly, ebitda, ebitdaQuarterly) ==
    [hasCIK |-> hasCIK, cik |-> cikFlag, quarterly |-> quarterly, ebitda |-> ebitda,
     ebitdaQuarterly |-> ebitdaQuarterly]

\* the variable cik after flag.Parse: the default "" when the flag is absent
ParsedCIK(a) == IF a.hasCIK THEN a.cik ELSE <<>>

ErrCIKRequired == "Error: CIK is required"
UsageText ==
    <<<<"Usage: edgar -cik <CIK> [options]">>,
      <<"Options:">>,
      <<"  -quarterly          Get 4 most recent 10-Q cash flow metrics">>,
      <<"  -ebitda            Calculate EBITDA for most recent 10-Q">>,
      <<"  -ebitda-quarterly  Calculate EBITDA for 4 most recent 10-Q filings">>,
      <<"Examples:">>,
      <<"  edgar -cik 0000320193">>,
      <<"  edgar -cik 0000320193 -quarterly">>,
      <<"  edgar -cik 0000320193 -ebitda">>,
      <<"  edgar -cik 0000320193 -ebitda-quarterly">>>>

\* the zeros put behind the string instead of before it
SprintfZeroPaddedRight(str, width) ==
    IF Len(str) >= width THEN str ELSE str \o [i \in 1..(width - Len(str)) |-> "0"]

\* fmt.Sprintf("%0<width>s", str)
SprintfZeroPadded(str, width) ==
    IF Len(str) >= width THEN str ELSE [i \in 1..(width - Len(str)) |-> "0"] \o str

\* the padding of the CIK
PadCIK(str) == IF Len(str) < KeyWidth THEN SprintfZeroPadded(str, KeyWidth) ELSE str

\* the branch of -quarterly tested before that of -ebitda
ModeQuarterlyBeforeEBITDA(a) ==
    IF a.ebitdaQuarterly THEN "ebitda-quarterly"
    ELSE IF a.quarterly THEN "quarterly"
    ELSE IF a.ebitda THEN "ebitda"
    ELSE "default"

\* the branch main takes
Mode(a) ==
    IF a.ebitdaQuarterly THEN "ebitda-quarterly"
    ELSE IF a.ebitda THEN "ebitda"
    ELSE IF a.quarterly THEN "quarterly"
    ELSE "default"

ErrFatalQuarterlyEBITDA == "Error getting quarterly EBITDA analysis"
ErrFatalQuarterly == "Error getting quarterly cash flow analysis"
ErrFatalFiling == "Error getting most recent 10-Q filing"
ErrFatalEBITDA == "Error parsing EBITDA metrics"
ErrFatalCashFlow == "Error parsing cash flow metrics"

\* a report on standard output: the text and the JSON of one result
Report(mode, value) == [mode |-> mode, value |-> value]

\* the end of main after a call: a panic, log.Fatalf, or the next position
Finish(o, fatal, next) ==
    /\ pc' = IF o.panic THEN "panic" ELSE IF o.err # NoError THEN "exit" ELSE next
    /\ exitCode' = IF o.panic THEN 2 ELSE IF o.err # NoError THEN 1 ELSE 0
    /\ stderr' = IF o.panic THEN Append(stderr, <<ErrPanic>>)
                 ELSE IF o.err # NoError THEN Append(stderr, Wrap(fatal, o.err))
                 ELSE stderr
    /\ err' = ErrorOf(o)

\* the validation left out: no CIK is ever missing
IsMissingCIKNever(str) == FALSE

\* the validation of the required flag: cik == ""
IsMissingCIK(str) == str = <<>>

\* flag.Parse, the validation of the CIK, its padding, edgar.NewClient()
MainStart ==
    /\ pc = "main"
    /\ op' = "main"
    /\ IF IsMissingCIK(ParsedCIK(args))
       THEN /\ stderr' = <<<<ErrCIKRequired>>>> \o UsageText
            /\ exitCode' = 1
            /\ pc' = "exit"
            /\ UNCHANGED <<cik, client>>
       ELSE /\ cik' = PadCIK(ParsedCIK(args))
            /\ client' = TRUE
            /\ pc' = "client"
            /\ UNCHANGED <<stderr, exitCode>>
    /\ UNCHANGED <<findIn, extractIn, result, consulted, clientIn, requests, err, ret,
                   args, stdout>>

\* the branches -ebitda-quarterly and -quarterly
MainAnalysis ==
    /\ pc = "client"
    /\ Mode(args) \in {"ebitda-quarterly", "quarterly"}
    /\ \E o \in (IF Mode(args) = "ebitda-quarterly"
                 THEN GetQuarterlyEBITDAAnalysis(status, submissions, facts)
                 ELSE GetQuarterlyCashFlowAnalysis(status, submissions, facts)) :
          /\ Finish(o, IF Mode(args) = "ebitda-quarterly" THEN ErrFatalQuarterlyEBITDA
                       ELSE ErrFatalQuarterly, "exit")
          /\ requests' = requests \o o.requests
          /\ ret' = o.analysis
          /\ stdout' = IF ~ o.panic /\ o.err = NoError
                       THEN Append(stdout, Report(Mode(args), o.analysis)) ELSE stdout
    /\ UNCHANGED <<op, findIn, extractIn, result, consulted, clientIn, args, cik, client>>

\* the first call of the branches -ebitda and default: GetMostRecent10Q
MainFiling ==
    /\ pc = "client"
    /\ Mode(args) \in {"ebitda", "default"}
    /\ \E o \in GetMostRecent10QOutcomes(status, submissions) :
          /\ Finish(o, ErrFatalFiling, "filing")
          /\ requests' = Append(requests, "submissions")
          /\ ret' = o.filing
          /\ filing' = IF ~ o.panic /\ o.err = NoError THEN o.filing ELSE filing
    /\ UNCHANGED <<op, findIn, extractIn, result, consulted, submissions, facts, status,
                   args, cik, client, stdout>>

\* the second call of the branches -ebitda and default: the metrics of the
\* filing found
MainMetrics ==
    /\ pc = "filing"
    /\ \E o \in (IF Mode(args) = "ebitda" THEN ParseEBITDAMetrics(status, facts, filing)
                 ELSE ParseCashFlowMetrics(status, facts, filing)) :
          LET out == [panic |-> FALSE, err |-> o.err]
          IN  /\ Finish(out, IF Mode(args) = "ebitda" THEN ErrFatalEBITDA
                             ELSE ErrFatalCashFlow, "exit")
              /\ ret' = o.metrics
              /\ stdout' = IF o.err = NoError
                           THEN Append(stdout, Report(Mode(args), o.metrics)) ELSE stdout
    /\ requests' = Append(requests, "facts")
    /\ UNCHANGED <<op, findIn, extractIn, result, consulted, clientIn, args, cik, client>>

NextMain ==
    \/ MainStart
    \/ MainAnalysis
    \/ MainFiling
    \/ MainMetrics

-----------------------------------------------------------------------------
(* Specification of the command line *)

\* the digits of the CIKs of the model
CIKDigits == [i \in 1..MaxCIKLen |-> DigitChars[((7 * i) % 10) + 1]]
\* the values of the flag -cik: the substrings of CIKDigits
CIKFlags == {SubSeq(CIKDigits, i, j) : i \in 1..MaxCIKLen, j \in 0..MaxCIKLen}

\* the servers of the model: both endpoints answer, or one does not
MainAnswers ==
    {AllOK,
     [submissions |-> ServerAnswer(FALSE, 404, TRUE), facts |-> AnswerOK],
     [submissions |-> AnswerOK, facts |-> ServerAnswer(FALSE, 500, TRUE)]}

InitMain ==
    /\ pc = "main"
    /\ op = ""
    /\ IdleFind
    /\ targetDate = EmptyDate
    /\ IdleExtract
    /\ \E hasCIK \in BOOLEAN :
       \E cikFlag \in (IF hasCIK THEN CIKFlags ELSE {<<>>}) :
       \E quarterly, ebitda, ebitdaQuarterly \in BOOLEAN :
          args = Flags(hasCIK, cikFlag, quarterly, ebitda, ebitdaQuarterly)
    /\ submissions \in
          {SubmissionsOf(<<[form |-> TenQ, filed |-> 1], [form |-> TenQ, filed |-> 3],
                           [form |-> TenK, filed |-> 3], [form |-> TenQ, filed |-> 2],
                           [form |-> TenQ, filed |-> 2], [form |-> TenQ, filed |-> 3]>>, "none"),
           SubmissionsOf(<<[form |-> TenK, filed |-> 3]>>, "none"),
           SubmissionsOf(<<[form |-> TenQ, filed |-> 3]>>, "form")}
    /\ \E isNil \in BOOLEAN :
          facts = CompanyFacts(CIKFloat(320193), EntityName,
                               FactsMap(isNil, ~ isNil, FactsTaxonomyOf(SampleFacts)))
    /\ status \in MainAnswers
    /\ filing = NoDocument
    /\ requests = <<>>
    /\ err = NoError
    /\ ret = 0
    /\ cik = <<>>
    /\ client = FALSE
    /\ stdout = <<>>
    /\ stderr = <<>>
    /\ exitCode = 0

SpecMain == InitMain /\ [][NextMain]_vars


-----------------------------------------------------------------------------
(* Claims about the command line *)

\* the submissions request succeeded and its document lists a 10-Q
SubmissionsYieldTenQ ==
    /\ ~ FetchFailed("submissions")
    /\ status.submissions.valid
    /\ DocTenQ # {}

\* the log of the requests of an invocation, at every moment
C12_RequestLog ==
    op \in {"", "main"} =>
        /\ requests \in {<<>>, <<"submissions">>, <<"submissions", "facts">>}
        /\ Len(requests) = 2 => SubmissionsYieldTenQ

\* a step only appends to the log: a request issued is never reordered
C12_RequestsAppended ==
    /\ Len(requests') >= Len(requests)
    /\ SubSeq(requests', 1, Len(requests)) = requests

(* C12: the requests of one invocation of the command line are sequential  *)
(* and ordered: in every mode the submissions request comes first, the     *)
(* facts request follows it and is issued once only (also when four        *)
(* quarters are analysed), never when the submissions request failed or    *)
(* listed no 10-Q, and an invocation issues at most two requests.          *)
C12_SequentialRequests == [] C12_RequestLog /\ [][C12_RequestsAppended]_vars

\* a quarterly analysis of four quarters was printed after one submissions
\* and one facts request
C12_Witness ==
    /\ pc = "exit"
    /\ exitCode = 0
    /\ Mode(args) = "quarterly"
    /\ Len(ret.Quarters) = 4
    /\ requests = <<"submissions", "facts">>


(* C13: when the flag -cik is absent or empty, the command line prints     *)
(* "Error: CIK is required" and the usage text to standard error and exits *)
(* with a failure status, having created no client and issued no request,  *)
(* whichever of -quarterly, -ebitda and -ebitda-quarterly are set.         *)
C13_CIKRequired ==
    (op = "main" /\ (~ args.hasCIK \/ args.cik = <<>>)) =>
        /\ pc = "exit"
        /\ exitCode # 0
        /\ Len(stderr) = 11
        /\ stderr[1] = <<"Error: CIK is required">>
        /\ stderr[2] = <<"Usage: edgar -cik <CIK> [options]">>
        /\ stdout = <<>>
        /\ ~ client
        /\ requests = <<>>

\* an invocation with -ebitda-quarterly and -quarterly and no -cik has ended
C13_Witness ==
    /\ op = "main"
    /\ ~ args.hasCIK
    /\ args.ebitdaQuarterly
    /\ args.quarterly
    /\ pc = "exit"
    /\ exitCode = 1
    /\ stderr # <<>>


\* key is str behind as many '0' as make ten characters, or str itself when
\* it has ten characters or more
IsNormalised(str, key) ==
    IF Len(str) < 10
    THEN /\ Len(key) = 10
         /\ \A i \in 1..(10 - Len(str)) : key[i] = "0"
         /\ SubSeq(key, 10 - Len(str) + 1, 10) = str
    ELSE key = str

-----------------------------------------------------------------------------
(* Claims about the identifying fields of the records *)

\* the record names the filing f
IdentifiesFiling(m, f) ==
    /\ m.FilingDate = f.FilingDate
    /\ m.ReportDate = f.ReportDate
    /\ m.Form = f.Form
    /\ m.AccessionNumber = f.AccessionNumber

\* the record names the company of the company-facts document
IdentifiesCompany(m) ==
    /\ m.CompanyName = facts.Entity
    /\ m.CIK = GetCIKString(facts.CIK)

\* the filing at position j of the submissions document
DocFiling(j) ==
    Filing(DocAccession(j), DocFiled(j), RankOf(Recent.reportDate[j].str), Recent.form[j].str)

SingleRecordOps ==
    {"ParseCashFlowMetricsFromFacts", "ParseCashFlowMetrics",
     "ParseEBITDAMetricsFromFacts", "ParseEBITDAMetrics"}
AnalysisOps == {"GetQuarterlyCashFlowAnalysis", "GetQuarterlyEBITDAAnalysis"}

(* C15: every metrics record, cash flow or EBITDA, single or a quarter of  *)
(* an analysis, carries the FilingDate, ReportDate, Form and               *)
(* AccessionNumber of exactly the filing it was computed for, and the      *)
(* CompanyName and CIK of the company-facts document; the extraction of    *)
(* the values leaves these fields as they were set.                        *)
C15_IdentifyingFields ==
    (pc = "done" /\ err = NoError) =>
        /\ op \in SingleRecordOps =>
              /\ IdentifiesFiling(ret, filing)
              /\ IdentifiesCompany(ret)
        /\ op \in AnalysisOps =>
              /\ ret.CompanyName = facts.Entity
              /\ ret.CIK = GetCIKString(facts.CIK)
              /\ \A i \in DOMAIN ret.Quarters :
                    /\ IdentifiesCompany(ret.Quarters[i])
                    /\ \E j \in DocTenQ : IdentifiesFiling(ret.Quarters[i], DocFiling(j))
              /\ \A i, k \in DOMAIN ret.Quarters :
                    i # k => ret.Quarters[i].AccessionNumber # ret.Quarters[k].AccessionNumber

\* an analysis of two quarters whose filings differ in the filing date and
\* in the report date, of a company whose CIK is a string
C15_Witness ==
    /\ Returned("GetQuarterlyCashFlowAnalysis")
    /\ Len(ret.Quarters) = 2
    /\ ret.Quarters[1].FilingDate # ret.Quarters[2].FilingDate
    /\ ret.Quarters[1].ReportDate # ret.Quarters[2].ReportDate
    /\ ret.Quarters[1].NetCashFromOperatingActivities # 0
    /\ facts.CIK.kind = "string"


-----------------------------------------------------------------------------
(* Claims about the quarterly analyses *)

(* C16: an analysis that GetQuarterlyCashFlowAnalysis or                   *)
(* GetQuarterlyEBITDAAnalysis returns on success has at least 1 and at     *)
(* most 4 quarters, and the Form of every quarter is "10-Q"; an analysis   *)
(* without quarters is never returned as a success.                        *)
C16_QuartersOfAnalysis ==
    (pc = "done" /\ op \in AnalysisOps) =>
        IF err = NoError
        THEN /\ ret # NoAnalysis
             /\ Len(ret.Quarters) >= 1
             /\ Len(ret.Quarters) <= 4
             /\ \A i \in DOMAIN ret.Quarters : ret.Quarters[i].Form = "10-Q"
        ELSE ret = NoAnalysis

\* the document lists five 10-Q filings and the EBITDA analysis holds four
\* quarters
C16_Witness ==
    /\ Returned("GetQuarterlyEBITDAAnalysis")
    /\ Cardinality(DocTenQ) = 5
    /\ Len(ret.Quarters) = 4


-----------------------------------------------------------------------------
(* Claims about the scan of findValueForDate *)

FindReturned == pc = "done" /\ op = "findValueForDate"

\* the positions of the observations the scan can take: a string end date, a
\* string form and a numeric value
Taken == {i \in 1..Len(dataArray) : IsScanned(dataArray[i]) /\ IsNumeric(dataArray[i])}

\* the days from 2023-01-01 to the date strings of the model
DayOf == <<89, 180, 272, 364, 455, 546, 638, 730>>
\* the days between two dates
Distance(a, b) == Abs(DayOf[a] - DayOf[b])

(* C17: findValueForDate finds the value closest to the report date: the   *)
(* value returned belongs to an observation whose end date is at least as  *)
(* close to the target date as the end date of every other observation of  *)
(* the same form in the series.                                            *)
C17_ClosestObservation ==
    (FindReturned /\ ret \in Taken) =>
        \A i \in Taken :
            dataArray[i].form = dataArray[ret].form =>
                Distance(dataArray[ret].end, targetDate)
                    <= Distance(dataArray[i].end, targetDate)

\* the variables of the loop when it reaches the observation at position i
BestBefore(i) == Scan(dataArray, targetDate, i - 1)

\* the recency bonus was added to the score of the observation at position i
BonusAt(i) == RecencyAwarded(dataArray[i], targetDate, BestBefore(i).bestDate)

\* the score the scan gave the observation at position i
ScoreAt(i) ==
    (IF dataArray[i].end = targetDate THEN 100 ELSE 0)
    + (IF dataArray[i].form = "10-Q" THEN 50 ELSE IF dataArray[i].form = "10-K" THEN 10 ELSE 0)
    + (IF BonusAt(i) THEN 25 ELSE 0)

IsLatestSoFar(i) ==
    /\ dataArray[i].end <= targetDate
    /\ \A j \in 1..(i - 1) :
          (IsScanned(dataArray[j]) /\ dataArray[j].end <= targetDate)
              => dataArray[i].end > dataArray[j].end

(* C20: during the scan an observation receives the recency bonus exactly  *)
(* when its end date is <= the target date and strictly later than the end *)
(* date of every observation scanned before it whose end date is <= the    *)
(* target date, whichever observation is held as the best one.             *)
C20_RecencyBonus ==
    FindReturned =>
        \A i \in 1..Len(dataArray) :
            IsScanned(dataArray[i]) => (BonusAt(i) <=> IsLatestSoFar(i))


-----------------------------------------------------------------------------
(* Specification of GetCIKString *)

MaxCIK == 20

CallGetCIKString ==
    /\ pc = "ready"
    /\ pc' = "done"
    /\ op' = "GetCIKString"
    /\ ret' = GetCIKString(facts.CIK)
    /\ UNCHANGED <<findIn, extractIn, result, consulted, clientIn, requests, err, cli>>

NextCIK == CallGetCIKString

\* the numbers of the CIKs of the model
CIKNumbers == 0..MaxCIK \cup {320193}

\* the values that denote the number n, a string with leading zeros among them
CIKValues(n) ==
    {CIKString(FormatInt(n)), CIKString(<<"0", "0">> \o FormatInt(n)), CIKInt(n), CIKFloat(n),
     CIKNumber(FormatInt(n))}

InitCIK ==
    /\ pc = "ready"
    /\ op = ""
    /\ IdleFind
    /\ targetDate = EmptyDate
    /\ IdleExtract
    /\ submissions = NoDocument
    /\ \E v \in UNION {CIKValues(n) : n \in CIKNumbers} \cup {CIKNil} :
          facts = CompanyFacts(v, EntityName, FactsMap(TRUE, FALSE, NoTaxonomy))
    /\ status = NoDocument
    /\ filing = NoDocument
    /\ requests = <<>>
    /\ err = NoError
    /\ ret = 0
    /\ IdleCLI

SpecCIK == InitCIK /\ [][NextCIK]_vars

\* s is the decimal numeral of n: its digits give n and it has no leading zero
IsDecimalOf(s, n) ==
    /\ s # <<>>
    /\ ParseDigits(s, 0) = n
    /\ Len(s) > 1 => s[1] # "0"

\* the number a CIK value that is no string denotes
Denoted(v) == IF v.kind = "json.Number" THEN ParseDigits(v.str, 0) ELSE v.num

(* C18: GetCIKString returns the same decimal digit string for a CIK held  *)
(* as a string, an int, a float64 of integral value or a json.Number that  *)
(* denote the same number (all give "320193" for 320193), and returns a    *)
(* string CIK unchanged, leading zeros included.                           *)
C18_CIKString ==
    (pc = "done" /\ op = "GetCIKString") =>
        /\ facts.CIK.kind = "string" => ret = facts.CIK.str
        /\ facts.CIK.kind \in {"int", "float64", "json.Number"} =>
              /\ IsDecimalOf(ret, Denoted(facts.CIK))
              /\ Denoted(facts.CIK) = 320193 => ret = <<"3", "2", "0", "1", "9", "3">>
        /\ (facts.CIK.kind = "string" /\ IsDecimalOf(facts.CIK.str, 320193)) =>
              ret = <<"3", "2", "0", "1", "9", "3">>

\* the float64 320193 gave "320193"
C18_Witness ==
    /\ pc = "done"
    /\ op = "GetCIKString"
    /\ facts.CIK.kind = "float64"
    /\ facts.CIK.num = 320193
    /\ ret = <<"3", "2", "0", "1", "9", "3">>


-----------------------------------------------------------------------------
(* Claims about the order of the observations *)

\* the observations of the series that are put in every order: every date
\* with every form, and a 10-Q of the target dates without a numeric value
OrderShapes ==
    {DataPoint(d, f, "float64") : d \in Dates, f \in Forms}
    \cup {DataPoint(d, TenQ, "nil") : d \in TargetDates}

InitOrder ==
    /\ pc = "ready"
    /\ op = ""
    /\ \E n \in 0..MaxSeriesLen : \E shapes \in [1..n -> OrderShapes] :
          dataArray = SeriesOf(shapes, 0)
    /\ targetDate \in TargetDates
    /\ IdleExtract
    /\ IdleClient
    /\ err = NoError
    /\ ret = 0
    /\ IdleCLI

SpecOrder == InitOrder /\ [][NextFind]_vars

\* the series with its observations in the order p
Permuted(data, p) == [i \in 1..Len(data) |-> data[p[i]]]
ScanOrders == Permutations(1..Len(dataArray))

\* the positions of the exact-date 10-Q observations with a numeric value
ExactTenQs ==
    {i \in 1..Len(dataArray) : IsExactTenQ(dataArray[i], targetDate)}

(* C21: the value findValueForDate returns is a function of the set of the *)
(* observations: for every series and target date, every permutation of    *)
(* the observations gives the same value.                                  *)
C21_OrderIndependent ==
    FindReturned =>
        \A p \in ScanOrders : findValueForDate(Permuted(dataArray, p), targetDate) = ret

(* C21, amended: findValueForDate is a function of the series in its       *)
(* order. Every permutation of the observations gives the same value when  *)
(* exactly one observation has the target date, the form 10-Q and a        *)
(* numeric value.                                                          *)
C21_OrderIndependentWithOneExactTenQ ==
    (FindReturned /\ Cardinality(ExactTenQs) = 1) =>
        \A p \in ScanOrders : findValueForDate(Permuted(dataArray, p), targetDate) = ret

\* one exact-date 10-Q stands behind a later 10-Q and an exact-date 10-K, and
\* is returned
C21_Witness ==
    /\ FindReturned
    /\ Len(dataArray) = 3
    /\ ExactTenQs = {3}
    /\ dataArray[1].form = TenQ /\ dataArray[1].end > targetDate
    /\ 1 \in Taken
    /\ dataArray[2].form = TenK /\ dataArray[2].end = targetDate
    /\ 2 \in Taken
    /\ ret = 3
    /\ findValueForDate(Permuted(dataArray, <<3, 2, 1>>), targetDate) = 3


-----------------------------------------------------------------------------
(* Claims about the outcomes of extractMetric *)

ExtractReturned == pc = "done" /\ op = "extractMetric"

(* C22: extractMetric is deterministic: two runs on the same taxonomy,     *)
(* candidate tags and report date return the same value and the same error *)
(* outcome, also when a tag has several unit keys whose lower-cased name   *)
(* contains "usd" with different series, in whatever order the unit map is *)
(* iterated.                                                               *)
C22_SameOutcomeInEveryOrder ==
    ExtractReturned =>
        \A orders \in UnitOrders(usGaap, tagNames) :
            LET again == extractMetric(usGaap, tagNames, 0, targetDate, orders)
            IN  /\ again.result = result
                /\ again.err = err


\* a call of extractMetric returned nil and wrote a value that is not 0
WroteValue == err' = NoError /\ result' # 0 /\ result' # result

\* a call of extractMetric returned the error and left *result alone
LeftResult ==
    /\ err' = <<"metric not found with any of the provided tag names">>
    /\ result' = result

(* C23: extractMetric has exactly two outcomes: it returns nil after       *)
(* writing a value that is not 0 into *result, or it returns the "metric   *)
(* not found" error and leaves *result as it was before the call; it never *)
(* writes a value and returns an error, and never returns nil with         *)
(* *result unchanged.                                                      *)
C23_TwoOutcomes ==
    [][(op' = "extractMetric" /\ pc' = "done") =>
          /\ WroteValue \/ LeftResult
          /\ ~ (WroteValue /\ LeftResult)]_vars

\* the call consulted a series, found nothing and left the 0 of the fresh
\* record
C23_Witness ==
    /\ ExtractReturned
    /\ err # NoError
    /\ consulted # <<>>
    /\ result = 0


-----------------------------------------------------------------------------
(* Claims about depreciation and amortization *)

\* the values the USD series of the tag give the scan for the report date of
\* the filing, 0 left out
TagYields(t) ==
    IF ~ HasUnitsMap(facts.Facts.usGaap, t) THEN {}
    ELSE LET units == facts.Facts.usGaap[t].units
         IN  {findValueForDate(units[u].data, filing.ReportDate) :
                 u \in {x \in DOMAIN units : IsUSDUnit(x) /\ units[x].isArray}} \ {0}

\* the values the first tag of the list that yields one may give; {0} when
\* no tag yields a value
FirstYield(tags) ==
    LET yielding == {k \in DOMAIN tags : TagYields(tags[k]) # {}}
    IN  IF yielding = {} THEN {0}
        ELSE TagYields(tags[CHOOSE k \in yielding : \A j \in yielding : k <= j])

PrimaryDATags ==
    <<"DepreciationDepletionAndAmortization", "Depreciation", "DepreciationAndAmortization",
      "AmortizationOfIntangibleAssets", "DepreciationAmortizationAndAccretionNet">>

EBITDARecordOfFiling ==
    (Returned("ParseEBITDAMetricsFromFacts") \/ Returned("ParseEBITDAMetrics")) /\ HasUsGaap

(* C24: when a tag of the primary list of depreciation and amortization    *)
(* yields a value, DepreciationAndAmortization is that value and the       *)
(* fallback is not run; when none does, the field is the sum of the        *)
(* depreciation (tags Depreciation, DepreciationNonproduction) and the     *)
(* amortization (tags AmortizationOfIntangibleAssets, Amortization)        *)
(* extracted separately, each 0 when not found, so 0 when neither is.      *)
C24_DepreciationFallback ==
    EBITDARecordOfFiling =>
        IF FirstYield(PrimaryDATags) # {0}
        THEN ret.DepreciationAndAmortization \in FirstYield(PrimaryDATags)
        ELSE \E d \in FirstYield(<<"Depreciation", "DepreciationNonproduction">>) :
             \E a \in FirstYield(<<"AmortizationOfIntangibleAssets", "Amortization">>) :
                ret.DepreciationAndAmortization = d + a

\* no primary tag yields a value, and the field is the sum of a depreciation
\* and an amortization found by the fallback
C24_Witness ==
    /\ EBITDARecordOfFiling
    /\ FirstYield(PrimaryDATags) = {0}
    /\ FirstYield(<<"Depreciation", "DepreciationNonproduction">>) # {0}
    /\ FirstYield(<<"AmortizationOfIntangibleAssets", "Amortization">>) # {0}
    /\ ret.DepreciationAndAmortization # 0
    /\ ret.DepreciationAndAmortization \notin FirstYield(<<"AmortizationOfIntangibleAssets", "Amortization">>)


-----------------------------------------------------------------------------
(* Claims about a document without a taxonomy *)

\* the message of the navigation for the document of the state
NoTaxonomyText ==
    IF facts.Facts.isNil THEN "facts data is nil" ELSE "us-gaap taxonomy not found"

(* C25: ParseCashFlowMetricsFromFacts and ParseEBITDAMetricsFromFacts      *)
(* return an error and a nil record when the facts map is nil or has no    *)
(* us-gaap taxonomy; the quarterly analyses then skip every filing and     *)
(* return the error "no cash flow metrics could be extracted from any 10-Q *)
(* filings" / "no EBITDA metrics could be extracted from any 10-Q filings" *)
(* and no analysis.                                                        *)
C25_NoTaxonomy ==
    (pc = "done" /\ ~ HasUsGaap) =>
        /\ op \in {"ParseCashFlowMetricsFromFacts", "ParseEBITDAMetricsFromFacts"} =>
              /\ err # NoError
              /\ err[Len(err)] = NoTaxonomyText
              /\ ret = NoMetrics
        /\ op = "GetQuarterlyCashFlowAnalysis" =>
              /\ err = <<"no cash flow metrics could be extracted from any 10-Q filings">>
              /\ ret = NoAnalysis
        /\ op = "GetQuarterlyEBITDAAnalysis" =>
              /\ err = <<"no EBITDA metrics could be extracted from any 10-Q filings">>
              /\ ret = NoAnalysis

\* the facts map holds no us-gaap taxonomy, the document lists 10-Q filings,
\* and the EBITDA analysis returned the error
C25_Witness ==
    /\ pc = "done"
    /\ op = "GetQuarterlyEBITDAAnalysis"
    /\ ~ facts.Facts.isNil
    /\ ~ facts.Facts.hasUsGaap
    /\ Cardinality(DocTenQ) = 2
    /\ requests = <<"submissions", "facts">>
    /\ err # NoError


-----------------------------------------------------------------------------
(* Specification of parseFilings *)

CallParseFilings ==
    /\ pc = "ready"
    /\ op' = "parseFilings"
    /\ LET o == parseFilings(submissions.recent)
       IN  /\ pc' = After(o)
           /\ err' = IF o.panic THEN <<ErrPanic>> ELSE NoError
           /\ ret' = o.filings
    /\ UNCHANGED <<findIn, extractIn, result, consulted, clientIn, requests, cli>>

NextParse == CallParseFilings

\* the documents of the filing selector, and the same with a null in place of
\* every second form, or without the accession numbers
ParseVariants == {"plain", "null forms", "no accession numbers"}
VariantOf(doc, variant) ==
    CASE variant = "null forms" ->
           [doc EXCEPT !.recent.form = [i \in DOMAIN @ |-> IF i % 2 = 0 THEN JNull ELSE @[i]]]
      [] variant = "no accession numbers" -> [doc EXCEPT !.recent.accessionNumber = <<>>]
      [] OTHER -> doc

InitParse ==
    /\ pc = "ready"
    /\ op = ""
    /\ IdleFind
    /\ targetDate = EmptyDate
    /\ IdleExtract
    /\ \E n \in 0..MaxFilings : \E shapes \in [1..n -> FilingShapes] :
          \E short \in (IF n \in 1..2 THEN ShortArrays ELSE {"none"}) :
             \E variant \in (IF n \in 1..3 THEN ParseVariants ELSE {"plain"}) :
                submissions = VariantOf(SubmissionsOf(shapes, short), variant)
    /\ facts = NoDocument
    /\ status = NoDocument
    /\ filing = NoDocument
    /\ requests = <<>>
    /\ err = NoError
    /\ ret = 0
    /\ IdleCLI

SpecParse == InitParse /\ [][NextParse]_vars

-----------------------------------------------------------------------------
(* Claims about parseFilings *)

\* all the parallel arrays have the length n
AllOfLength(n) ==
    /\ Len(Recent.accessionNumber) = n
    /\ Len(Recent.filingDate) = n
    /\ Len(Recent.reportDate) = n
    /\ Len(Recent.form) = n
    /\ Recent.otherLen = n

\* the string of an element of an array: "" for null
TextOf(v) == IF v.kind = "null" THEN "" ELSE v.str

(* C26: for a submissions document whose parallel arrays all have the same *)
(* length n, parseFilings returns n filings in array order, filing i       *)
(* taking each field from index i of its array, converted to a string; it  *)
(* returns an empty list when the accessionNumber array is missing or      *)
(* empty.                                                                  *)
C26_FilingsInArrayOrder ==
    (op = "parseFilings" /\ pc # "ready") =>
        /\ AllOfLength(Len(Recent.accessionNumber)) =>
              /\ pc = "done"
              /\ Len(ret) = Len(Recent.accessionNumber)
              /\ \A i \in 1..Len(ret) :
                    /\ ret[i].AccessionNumber = TextOf(Recent.accessionNumber[i])
                    /\ ret[i].FilingDate = RankOf(TextOf(Recent.filingDate[i]))
                    /\ ret[i].ReportDate = RankOf(TextOf(Recent.reportDate[i]))
                    /\ ret[i].Form = TextOf(Recent.form[i])
        /\ Len(Recent.accessionNumber) = 0 => (pc = "done" /\ ret = <<>>)

\* three filings of full arrays, the second with a null form and a filing
\* date before that of the third
C26_Witness ==
    /\ op = "parseFilings"
    /\ pc = "done"
    /\ AllOfLength(3)
    /\ Len(ret) = 3
    /\ Recent.form[2] = JNull
    /\ ret[2].Form = ""
    /\ ret[2].FilingDate < ret[3].FilingDate
    /\ ret[1].ReportDate # ret[2].ReportDate

(* C27: parseFilings never reads a parallel array past its end: for every  *)
(* submissions document, also one in which an array such as filingDate,    *)
(* reportDate, form or items is missing or shorter than accessionNumber,   *)
(* it terminates normally and returns a list of filings without a runtime  *)
(* fault.                                                                  *)
C27_NoRuntimeFault ==
    op = "parseFilings" => pc # "panic"


-----------------------------------------------------------------------------
(* Claims about the quarters and the filings selected *)

(* Specification of the two quarterly analyses: documents of up to         *)
(* MaxQuarterFilings filings, 10-Q filings of three filing dates and 10-K  *)
(* filings between them, every array complete and every fetch answered     *)
MaxQuarterFilings == 5

QuarterShapes ==
    {[form |-> TenQ, filed |-> d] : d \in FilingDateRanks}
    \cup {[form |-> TenK, filed |-> 3]}

InitQuarters ==
    /\ pc = "ready"
    /\ op = ""
    /\ IdleFind
    /\ targetDate = EmptyDate
    /\ IdleExtract
    /\ \E n \in 0..MaxQuarterFilings : \E shapes \in [1..n -> QuarterShapes] :
          submissions = SubmissionsOf(shapes, "none")
    /\ facts = CompanyFacts(CIKFloat(320193), EntityName,
                            FactsMap(FALSE, TRUE, FactsTaxonomyOf(SampleFacts)))
    /\ status = AllOK
    /\ filing = TenQFiling(2)
    /\ requests = <<>>
    /\ err = NoError
    /\ ret = 0
    /\ IdleCLI

NextQuarters ==
    \/ CallGetQuarterlyCashFlowAnalysis
    \/ CallGetQuarterlyEBITDAAnalysis

SpecQuarters == InitQuarters /\ [][NextQuarters]_vars

(* C28: when GetQuarterlyCashFlowAnalysis or GetQuarterlyEBITDAAnalysis    *)
(* returns success, its quarters correspond one to one, in the same order, *)
(* to the filings GetMostRecent4TenQs selected: quarter i carries the      *)
(* accession number of filing i, so the quarters are ordered by filing     *)
(* date descending and no selected filing is dropped or duplicated.        *)
C28_QuartersFollowFilings ==
    (pc = "done" /\ err = NoError /\ op \in AnalysisOps) =>
        /\ \E o \in GetMostRecent4TenQsOutcomes(status, submissions) :
              /\ ~ o.panic
              /\ o.err = NoError
              /\ Len(ret.Quarters) = Len(o.filings)
              /\ \A i \in DOMAIN ret.Quarters :
                    IdentifiesFiling(ret.Quarters[i], o.filings[i])
        /\ \A i, k \in DOMAIN ret.Quarters :
              /\ i < k => ret.Quarters[i].FilingDate >= ret.Quarters[k].FilingDate
              /\ i # k => ret.Quarters[i].AccessionNumber # ret.Quarters[k].AccessionNumber
        /\ Len(ret.Quarters) = Min(4, Cardinality(DocTenQ))

\* three quarters of three filing dates; the most recent filing stands last
\* in the document and first in the analysis
C28_Witness ==
    /\ Returned("GetQuarterlyCashFlowAnalysis")
    /\ Len(ret.Quarters) = 3
    /\ Len(Recent.form) = 3
    /\ ret.Quarters[1].FilingDate > ret.Quarters[2].FilingDate
    /\ ret.Quarters[2].FilingDate > ret.Quarters[3].FilingDate
    /\ ret.Quarters[1].AccessionNumber = DocAccession(3)


-----------------------------------------------------------------------------
(* Claims about the report of an invocation *)

\* the flag of the highest precedence that is set
Precedence ==
    CASE args.ebitdaQuarterly -> "ebitda-quarterly"
      [] ~ args.ebitdaQuarterly /\ args.ebitda -> "ebitda"
      [] ~ args.ebitdaQuarterly /\ ~ args.ebitda /\ args.quarterly -> "quarterly"
      [] OTHER -> "default"

\* what the operations of a single-filing mode request and report
SingleRuns(ofEBITDA) ==
    UNION {
      IF o.panic \/ o.err # NoError
      THEN {[requests |-> <<"submissions">>, reported |-> FALSE, value |-> <<>>]}
      ELSE {[requests |-> <<"submissions", "facts">>, reported |-> m.err = NoError,
             value |-> m.metrics] :
               m \in (IF ofEBITDA THEN ParseEBITDAMetrics(status, facts, o.filing)
                      ELSE ParseCashFlowMetrics(status, facts, o.filing))}
      : o \in GetMostRecent10QOutcomes(status, submissions)}

\* what the operation of a quarterly mode requests and reports
QuarterlyRuns(ofEBITDA) ==
    {[requests |-> o.requests, reported |-> ~ o.panic /\ o.err = NoError,
      value |-> o.analysis] :
        o \in (IF ofEBITDA THEN GetQuarterlyEBITDAAnalysis(status, submissions, facts)
               ELSE GetQuarterlyCashFlowAnalysis(status, submissions, facts))}

\* the runs of the operations of one mode, whatever the other flags are
RunsOf(mode) ==
    CASE mode = "ebitda-quarterly" -> QuarterlyRuns(TRUE)
      [] mode = "ebitda" -> SingleRuns(TRUE)
      [] mode = "quarterly" -> QuarterlyRuns(FALSE)
      [] OTHER -> SingleRuns(FALSE)

MainEnded == op = "main" /\ pc \in {"exit", "panic"} /\ client

(* C29: an invocation with a non-empty CIK produces exactly one report,    *)
(* chosen by the precedence -ebitda-quarterly > -ebitda > -quarterly >     *)
(* default: for every combination of the three flags only the operations   *)
(* of the set flag of the highest precedence are executed, and the flags   *)
(* below it have no effect on the requests made or on the output.          *)
C29_OneReportByPrecedence ==
    MainEnded =>
        /\ Len(stdout) <= 1
        /\ Len(stdout) = 1 <=> (pc = "exit" /\ exitCode = 0)
        /\ \A i \in DOMAIN stdout : stdout[i].mode = Precedence
        /\ \E run \in RunsOf(Precedence) :
              /\ requests = run.requests
              /\ run.reported <=> Len(stdout) = 1
              /\ run.reported => stdout[1].value = run.value

\* -ebitda and -quarterly are both set: the EBITDA record of the most recent
\* 10-Q is the one report
C29_Witness ==
    /\ MainEnded
    /\ args.ebitda /\ args.quarterly /\ ~ args.ebitdaQuarterly
    /\ exitCode = 0
    /\ Len(stdout) = 1
    /\ stdout[1].mode = "ebitda"
    /\ stdout[1].value.EBITDA # 0
    /\ requests = <<"submissions", "facts">>


-----------------------------------------------------------------------------
(* Claims about several observations of the target date *)

\* the first position of an exact-date 10-Q observation with a numeric value
FirstExactTenQ == CHOOSE i \in ExactTenQs : \A j \in ExactTenQs : i <= j

(* C30: when a series holds several observations of form 10-Q whose end    *)
(* date is the target date, with different values, findValueForDate        *)
(* returns the value of the one that stands first in the series; a later   *)
(* exact-date 10-Q observation never replaces an earlier one.              *)
C30_FirstExactTenQKept ==
    (FindReturned /\ ExactTenQs # {}) =>
        /\ ret = NumericValue(dataArray[FirstExactTenQ])
        /\ \A k \in 1..Len(dataArray) :
              (\E i \in ExactTenQs : i <= k) =>
                  Scan(dataArray, targetDate, k).bestValue
                      = NumericValue(dataArray[FirstExactTenQ])

\* two exact-date 10-Q observations stand behind a later 10-Q, and the first
\* of the two is returned
C30_Witness ==
    /\ FindReturned
    /\ ExactTenQs = {2, 3}
    /\ dataArray[1].form = TenQ
    /\ dataArray[1].end > targetDate
    /\ 1 \in Taken
    /\ ret = 2


====
